---- MODULE Spec2Model ----
(***************************************************************************)
(* Model of the batch-swap-router program: the safe arithmetic layer, the  *)
(* per-swap parameter checks, the fee calculation and the batch_swap       *)
(* instruction handler (validation loop, accumulation loop, event).        *)
(*                                                                         *)
(* Widths.  The program computes in u64 and u128.  The model keeps the     *)
(* same two-level structure with a narrower word: a "u64" is a number in   *)
(* 0..U64_MAX and a "u128" is a two-digit number [hi, lo] in base          *)
(* U64_MAX + 1, so that, as in the program, the double-width type holds    *)
(* exactly the products of two single-width values.                        *)
(***************************************************************************)
EXTENDS Integers, Sequences, FiniteSets, TLC

\* ------------------------------------------------------------------------
\* Bounds of the model
\* ------------------------------------------------------------------------

\* Largest value of the single-width unsigned type (u64::MAX, scaled down).
U64_MAX == 1073741823

\* Number of freely chosen members of a batch.
MaxFree == 2

\* Amounts 0..MaxSmallAmount are all fed to the fee calculation.
MaxSmallAmount == 700

\* Outputs 0..MaxSmallOutput are all fed to the slippage calculation.
MaxSmallOutput == 12

\* Longest batch of two invocations that run at the same time.
MaxConcLen == 2

\* Longest batch whose members are all freely chosen among valid,
\* overflowing and invalid requests.
MaxFoldLen == 3

\* ------------------------------------------------------------------------
\* Program constants
\* ------------------------------------------------------------------------

MAX_BATCH_SIZE == 10

MIN_SWAP_AMOUNT == 1

PROTOCOL_FEE_BPS == 30

\* The literal 10000u128 of calculate_fee_safe.
BPS_DENOMINATOR == 10000

MAX_SLIPPAGE_BPS == 500

\* The literal 10000 of calculate_slippage: basis points in one whole.
SLIPPAGE_SCALE == 10000

\* Number of values of a u8 (swaps.len() as u8).
U8_RANGE == 256

\* Pubkey::default(): the all-zero key.
DefaultPubkey == 0

\* ------------------------------------------------------------------------
\* Result<T>
\* ------------------------------------------------------------------------

Ok(v) == [ok |-> TRUE, val |-> v, err |-> "none"]

Err(e) == [ok |-> FALSE, val |-> 0, err |-> e]

\* ------------------------------------------------------------------------
\* impl SafeMath for u64
\* ------------------------------------------------------------------------

\* wrapping_add in place of checked_add.
u64_safe_add_wrapping(self, rhs) ==
    IF rhs > U64_MAX - self
    THEN Ok(self - (U64_MAX - rhs) - 1)
    ELSE Ok(self + rhs)

\* checked_add: None when self + rhs exceeds the type.
u64_safe_add(self, rhs) ==
    IF rhs > U64_MAX - self THEN Err("MathOverflow") ELSE Ok(self + rhs)

\* saturating_sub in place of checked_sub.
u64_safe_sub_saturating(self, rhs) ==
    IF rhs > self THEN Ok(0) ELSE Ok(self - rhs)

\* checked_sub: None when rhs > self.
u64_safe_sub(self, rhs) ==
    IF rhs > self THEN Err("MathOverflow") ELSE Ok(self - rhs)

\* checked_mul: None when self * rhs exceeds the type.
u64_safe_mul(self, rhs) ==
    IF self # 0 /\ rhs > U64_MAX \div self
    THEN Err("MathOverflow")
    ELSE Ok(self * rhs)

\* explicit zero test, then checked_div.
u64_safe_div(self, rhs) ==
    IF rhs = 0 THEN Err("MathOverflow") ELSE Ok(self \div rhs)

\* ------------------------------------------------------------------------
\* u128: two digits in base U64_MAX + 1
\* ------------------------------------------------------------------------

U128Base == U64_MAX + 1

\* `x as u128`
as_u128(x) == [hi |-> 0, lo |-> x]

\* Sum of two u128 values with its carry out of the type.
U128AddCarry(x, y) ==
    LET c0 == IF y.lo > U64_MAX - x.lo THEN 1 ELSE 0
        lo == IF c0 = 1 THEN x.lo - (U128Base - y.lo) ELSE x.lo + y.lo
        c1 == IF y.hi > U64_MAX - x.hi THEN 1
              ELSE IF c0 = 1 /\ x.hi + y.hi = U64_MAX THEN 1 ELSE 0
        hs == IF y.hi > U64_MAX - x.hi
              THEN x.hi - (U128Base - y.hi)
              ELSE x.hi + y.hi
        hi == IF c0 = 0 THEN hs
              ELSE IF hs = U64_MAX THEN 0 ELSE hs + 1
    IN  [carry |-> c1, sum |-> [hi |-> hi, lo |-> lo]]

\* The values of the double-width type.
U128 == [hi : 0..U64_MAX, lo : 0..U64_MAX]

\* The full product of two single-width values, by binary expansion of b:
\* one step adds the current multiple of a when the low bit of b is set,
\* then doubles the multiple and halves b.
WidenMul(a, b) ==
    LET MulLoop[st \in [acc : U128, addend : U128, b : 0..U64_MAX]] ==
            IF st.b = 0 THEN st.acc
            ELSE MulLoop[[acc    |-> IF st.b % 2 = 1
                                     THEN U128AddCarry(st.acc, st.addend).sum
                                     ELSE st.acc,
                          addend |-> U128AddCarry(st.addend, st.addend).sum,
                          b      |-> st.b \div 2]]
    IN  MulLoop[[acc |-> as_u128(0), addend |-> as_u128(a), b |-> b]]

u128_safe_add(self, rhs) ==
    LET r == U128AddCarry(self, rhs)
    IN  IF r.carry = 1 THEN Err("MathOverflow") ELSE Ok(r.sum)

\* checked_mul on u128: None when the product exceeds the type.
u128_safe_mul(self, rhs) ==
    IF self.hi # 0 /\ rhs.hi # 0 THEN Err("MathOverflow")
    ELSE LET low   == WidenMul(self.lo, rhs.lo)
             cross == IF self.hi # 0 THEN WidenMul(self.hi, rhs.lo)
                      ELSE WidenMul(self.lo, rhs.hi)
         IN  IF cross.hi # 0 THEN Err("MathOverflow")
             ELSE u128_safe_add(low, [hi |-> cross.lo, lo |-> 0])

U128Less(x, y) == x.hi < y.hi \/ (x.hi = y.hi /\ x.lo < y.lo)

\* x - y for y <= x, with the borrow from the high digit.
U128Sub(x, y) ==
    IF x.lo >= y.lo
    THEN [hi |-> x.hi - y.hi, lo |-> x.lo - y.lo]
    ELSE [hi |-> x.hi - y.hi - 1, lo |-> x.lo + (U128Base - y.lo)]

\* Quotient and remainder of x by y # 0, by binary long division:
\* Doublings is <<y, 2y, 4y, ...>> up to x; DivLoop goes from the largest
\* doubling down, one bit of the quotient per step.
U128DivMod(x, y) ==
    LET Doublings[st \in [ms : Seq(U128), x : U128]] ==
            LET top == st.ms[Len(st.ms)]
                dbl == U128AddCarry(top, top)
            IN  IF dbl.carry = 1 \/ U128Less(st.x, dbl.sum) THEN st.ms
                ELSE Doublings[[ms |-> Append(st.ms, dbl.sum), x |-> st.x]]
        DivLoop[st \in [ms : Seq(U128), k : Nat, q : U128, r : U128]] ==
            IF st.k = 0 THEN [q |-> st.q, r |-> st.r]
            ELSE LET q2 == U128AddCarry(st.q, st.q).sum
                 IN  IF U128Less(st.r, st.ms[st.k])
                     THEN DivLoop[[ms |-> st.ms, k |-> st.k - 1, q |-> q2, r |-> st.r]]
                     ELSE DivLoop[[ms |-> st.ms, k |-> st.k - 1,
                                   q  |-> U128AddCarry(q2, as_u128(1)).sum,
                                   r  |-> U128Sub(st.r, st.ms[st.k])]]
    IN  IF U128Less(x, y) THEN [q |-> as_u128(0), r |-> x]
        ELSE LET ms == Doublings[[ms |-> <<y>>, x |-> x]]
             IN  DivLoop[[ms |-> ms, k |-> Len(ms), q |-> as_u128(0), r |-> x]]

\* checked_sub on u128.
u128_safe_sub(self, rhs) ==
    IF U128Less(self, rhs) THEN Err("MathOverflow") ELSE Ok(U128Sub(self, rhs))

\* explicit zero test, then checked_div.
u128_safe_div(self, rhs) ==
    IF rhs.hi = 0 /\ rhs.lo = 0 THEN Err("MathOverflow")
    ELSE Ok(U128DivMod(self, rhs).q)

\* u64::try_from(u128)
u64_try_from(x) ==
    IF x.hi = 0 THEN Ok(x.lo) ELSE Err("MathOverflow")

\* ------------------------------------------------------------------------
\* Option<T>, and the checked_* primitives the safe operations wrap
\* ------------------------------------------------------------------------

Some(v) == [some |-> TRUE, val |-> v]

None == [some |-> FALSE, val |-> 0]

\* Result::ok(): the value kept, the error kind dropped.
ok(res) == IF res.ok THEN Some(res.val) ELSE None

u64_checked_sub(self, rhs) == ok(u64_safe_sub(self, rhs))

u128_checked_mul(self, rhs) == ok(u128_safe_mul(self, rhs))

u128_checked_div(self, rhs) == ok(u128_safe_div(self, rhs))

\* ------------------------------------------------------------------------
\* security.rs: assertions and fee helpers
\* ------------------------------------------------------------------------

\* require!(account_info.is_signer, InvalidAuthority)
assert_signer(account_info) ==
    IF account_info.is_signer THEN Ok(0) ELSE Err("InvalidAuthority")

assert_keys_equal(key1, key2) ==
    IF key1 = key2 THEN Ok(0) ELSE Err("InvalidAccount")

assert_token_account_owner(token_account, expected_owner) ==
    IF token_account.owner = expected_owner THEN Ok(0) ELSE Err("InvalidAuthority")

assert_not_default(key) ==
    IF key # DefaultPubkey THEN Ok(0) ELSE Err("InvalidAccount")

\* The distinctness check reporting the kind of the key checks.
assert_different_mints_as_account(mint1, mint2) ==
    IF mint1 # mint2 THEN Ok(0) ELSE Err("InvalidAccount")

assert_different_mints(mint1, mint2) ==
    IF mint1 # mint2 THEN Ok(0) ELSE Err("InvalidSwapPair")

\* The fee computed in u64, without widening to u128.
calculate_fee_safe_no_widening(amount, fee_bps) ==
    LET product == u64_safe_mul(amount, fee_bps)
    IN  IF ~product.ok THEN product
        ELSE u64_safe_div(product.val, BPS_DENOMINATOR)

\* The fee computed as (amount / 10000) * fee_bps: division before
\* multiplication.
calculate_fee_safe_divide_first(amount, fee_bps) ==
    LET quotient == u128_safe_div(as_u128(amount), as_u128(BPS_DENOMINATOR))
    IN  IF ~quotient.ok THEN quotient
        ELSE LET fee == u128_safe_mul(quotient.val, as_u128(fee_bps))
             IN  IF ~fee.ok THEN fee ELSE u64_try_from(fee.val)

\* The fee computed as amount * fee_bps, the division left out.
calculate_fee_safe_no_division(amount, fee_bps) ==
    LET product == u128_safe_mul(as_u128(amount), as_u128(fee_bps))
    IN  IF ~product.ok THEN product ELSE u64_try_from(product.val)

\* (amount as u128).safe_mul(fee_bps as u128)?.safe_div(10000u128)?,
\* then u64::try_from.
calculate_fee_safe(amount, fee_bps) ==
    LET product == u128_safe_mul(as_u128(amount), as_u128(fee_bps))
    IN  IF ~product.ok THEN product
        ELSE LET fee == u128_safe_div(product.val, as_u128(BPS_DENOMINATOR))
             IN  IF ~fee.ok THEN fee ELSE u64_try_from(fee.val)

\* fee.safe_sub(amount): the operands exchanged.
amount_after_fee_exchanged(amount, fee) == u64_safe_sub(fee, amount)

amount_after_fee(amount, fee) == u64_safe_sub(amount, fee)

\* require!(amount_after > min_amount).
validate_amount_after_fee_strict(amount, fee, min_amount) ==
    LET amount_after == amount_after_fee(amount, fee)
    IN  IF ~amount_after.ok THEN amount_after
        ELSE IF amount_after.val > min_amount THEN Ok(0)
        ELSE Err("InsufficientOutput")

validate_amount_after_fee(amount, fee, min_amount) ==
    LET amount_after == amount_after_fee(amount, fee)
    IN  IF ~amount_after.ok THEN amount_after
        ELSE IF amount_after.val >= min_amount THEN Ok(0)
        ELSE Err("InsufficientOutput")

\* The whole amount taken as the fee (10000 basis points).
calculate_protocol_fee_everything(amount) == calculate_fee_safe(amount, BPS_DENOMINATOR)

\* swap_execution.rs
calculate_protocol_fee(amount) == calculate_fee_safe(amount, PROTOCOL_FEE_BPS)

\* ------------------------------------------------------------------------
\* Slippage: utils.rs, security.rs, swap_execution.rs and the client's copy
\* ------------------------------------------------------------------------

\* require!(actual_output >= min_output, SlippageExceeded)
validate_min_output(actual_output, min_output) ==
    IF actual_output >= min_output THEN Ok(0) ELSE Err("SlippageExceeded")

\* The tolerance check with the bound exclusive.
assert_valid_slippage_exclusive(slippage_bps, max_bps) ==
    IF slippage_bps < max_bps THEN Ok(0) ELSE Err("SlippageExceeded")

\* require!(slippage_bps <= max_slippage_bps, SlippageExceeded)
assert_valid_slippage(slippage_bps, max_bps) ==
    IF slippage_bps <= max_bps THEN Ok(0) ELSE Err("SlippageExceeded")

\* The function as its documentation describes it: None when the output
\* is better than expected.
calculate_slippage_none_when_better(expected, actual) ==
    IF expected = 0 THEN None
    ELSE IF actual > expected THEN None
    ELSE LET difference == u64_checked_sub(expected, actual)
             product    == u128_checked_mul(as_u128(difference.val), as_u128(SLIPPAGE_SCALE))
             quotient   == u128_checked_div(product.val, as_u128(expected))
         IN  ok(u64_try_from(quotient.val))

\* The product taken in the single width, wrapping.
calculate_slippage_wrapping(expected, actual) ==
    IF expected = 0 THEN None
    ELSE IF actual >= expected THEN Some(0)
    ELSE LET difference == u64_checked_sub(expected, actual)
             product    == WidenMul(difference.val, SLIPPAGE_SCALE).lo
         IN  Some(product \div expected)

\* utils.rs.  Each `?` returns None from the function.
calculate_slippage(expected, actual) ==
    IF expected = 0 THEN None
    ELSE IF actual >= expected THEN Some(0)
    ELSE LET difference == u64_checked_sub(expected, actual)
         IN  IF ~difference.some THEN None
             ELSE LET product == u128_checked_mul(as_u128(difference.val),
                                                  as_u128(SLIPPAGE_SCALE))
                  IN  IF ~product.some THEN None
                      ELSE LET quotient == u128_checked_div(product.val, as_u128(expected))
                           IN  IF ~quotient.some THEN None
                               ELSE ok(u64_try_from(quotient.val))

\* client/src/security.rs: the client's own copy.
calculate_slippage_bps(expected, actual) ==
    IF expected = 0 THEN None
    ELSE IF actual >= expected THEN Some(0)
    ELSE LET difference == u64_checked_sub(expected, actual)
         IN  IF ~difference.some THEN None
             ELSE LET product == u128_checked_mul(as_u128(difference.val),
                                                  as_u128(SLIPPAGE_SCALE))
                  IN  IF ~product.some THEN None
                      ELSE LET quotient == u128_checked_div(product.val, as_u128(expected))
                           IN  IF ~quotient.some THEN None
                               ELSE ok(u64_try_from(quotient.val))

\* The tolerance examined before the two cases that return true.
is_slippage_acceptable_tolerance_first(expected, actual, tolerance_bps) ==
    IF tolerance_bps >= SLIPPAGE_SCALE THEN FALSE
    ELSE IF expected = 0 THEN TRUE
    ELSE IF actual >= expected THEN TRUE
    ELSE LET multiplier == u64_checked_sub(SLIPPAGE_SCALE, tolerance_bps)
         IN  IF ~multiplier.some THEN FALSE
             ELSE LET product == u128_checked_mul(as_u128(expected), as_u128(multiplier.val))
                  IN  IF ~product.some THEN FALSE
                      ELSE LET min_amount == u128_checked_div(product.val,
                                                              as_u128(SLIPPAGE_SCALE))
                           IN  IF ~min_amount.some THEN FALSE
                               ELSE actual >= min_amount.val.lo

\* utils.rs: true for expected = 0, then true for actual >= expected, then
\* false for a tolerance of 10000 or more, otherwise
\* actual >= (expected * (10000 - tolerance_bps) / 10000) as u64.
is_slippage_acceptable(expected, actual, tolerance_bps) ==
    IF expected = 0 THEN TRUE
    ELSE IF actual >= expected THEN TRUE
    ELSE IF tolerance_bps >= SLIPPAGE_SCALE THEN FALSE
    ELSE LET multiplier == u64_checked_sub(SLIPPAGE_SCALE, tolerance_bps)
         IN  IF ~multiplier.some THEN FALSE
             ELSE LET product == u128_checked_mul(as_u128(expected), as_u128(multiplier.val))
                  IN  IF ~product.some THEN FALSE
                      ELSE LET min_amount == u128_checked_div(product.val,
                                                              as_u128(SLIPPAGE_SCALE))
                           IN  IF ~min_amount.some THEN FALSE
                               ELSE actual >= min_amount.val.lo

\* The relative check alone, without the absolute floor.
validate_slippage_relative_only(expected_output, actual_output, min_output_amount, max_bps) ==
    IF expected_output > 0 /\ actual_output < expected_output
    THEN LET s == calculate_slippage(expected_output, actual_output)
         IN  IF s.some THEN assert_valid_slippage(s.val, max_bps) ELSE Ok(0)
    ELSE Ok(0)

\* swap_execution.rs: the absolute floor first, then the relative check
\* when the output fell short of a non-zero expectation.
validate_slippage(expected_output, actual_output, min_output_amount, max_bps) ==
    LET floor == validate_min_output(actual_output, min_output_amount)
    IN  IF ~floor.ok THEN floor
        ELSE IF expected_output > 0 /\ actual_output < expected_output
        THEN LET s == calculate_slippage(expected_output, actual_output)
             IN  IF s.some THEN assert_valid_slippage(s.val, max_bps) ELSE Ok(0)
        ELSE Ok(0)

\* ------------------------------------------------------------------------
\* batch_swap.rs: the body of the validation loop for one member
\* ------------------------------------------------------------------------

\* The loop body with the distinctness check before the amount check.
validate_swap_mints_first(swap) ==
    LET c1 == assert_not_default(swap.input_mint)
        c2 == assert_not_default(swap.output_mint)
        c3 == assert_different_mints(swap.input_mint, swap.output_mint)
    IN  IF ~c1.ok THEN c1
        ELSE IF ~c2.ok THEN c2
        ELSE IF ~c3.ok THEN c3
        ELSE IF ~(swap.amount >= MIN_SWAP_AMOUNT) THEN Err("InvalidAmount")
        ELSE IF ~(swap.min_output_amount > 0) THEN Err("InvalidMinOutput")
        ELSE Ok(0)

\* The loop body without the minimum-output check.
validate_swap_no_min_output(swap) ==
    LET c1 == assert_not_default(swap.input_mint)
        c2 == assert_not_default(swap.output_mint)
        c4 == assert_different_mints(swap.input_mint, swap.output_mint)
    IN  IF ~c1.ok THEN c1
        ELSE IF ~c2.ok THEN c2
        ELSE IF ~(swap.amount >= MIN_SWAP_AMOUNT) THEN Err("InvalidAmount")
        ELSE IF ~c4.ok THEN c4
        ELSE Ok(0)

validate_swap(swap) ==
    LET c1 == assert_not_default(swap.input_mint)
        c2 == assert_not_default(swap.output_mint)
        c4 == assert_different_mints(swap.input_mint, swap.output_mint)
    IN  IF ~c1.ok THEN c1
        ELSE IF ~c2.ok THEN c2
        ELSE IF ~(swap.amount >= MIN_SWAP_AMOUNT) THEN Err("InvalidAmount")
        ELSE IF ~c4.ok THEN c4
        ELSE IF ~(swap.min_output_amount > 0) THEN Err("InvalidMinOutput")
        ELSE Ok(0)

\* ------------------------------------------------------------------------
\* Inputs
\* ------------------------------------------------------------------------

\* The all-zero key and two other keys.
Pubkeys == {DefaultPubkey, 1, 2}

SwapParams(i, o, a, m) ==
    [input_mint |-> i, output_mint |-> o, amount |-> a, min_output_amount |-> m]

\* Every combination of zero / non-zero / equal keys with amount and
\* minimum output on both sides of their limits.
CheckedRequests ==
    { SwapParams(i, o, a, m) :
        i \in Pubkeys, o \in {DefaultPubkey, 1}, a \in {0, 500}, m \in {0, 1} }

\* Valid requests whose amounts exercise the fee floor and the overflow of
\* the running total.
LargeAmounts == {1, 333, 334, 1000000000, U64_MAX \div 2 + 1, U64_MAX}

LargeRequests == { SwapParams(1, 2, a, 7) : a \in LargeAmounts }

Requests == CheckedRequests \cup LargeRequests

RECURSIVE SeqsUpTo(_, _)
SeqsUpTo(S, n) ==
    IF n = 0 THEN {<<>>}
    ELSE LET shorter == SeqsUpTo(S, n - 1)
         IN  shorter \cup { Append(q, x) : q \in { t \in shorter : Len(t) = n - 1 }, x \in S }

Filler == SwapParams(2, 1, 500, 1)

Padding(n) == [k \in 1..n |-> Filler]

\* Short batches of arbitrary members, and batches of every length up to
\* MAX_BATCH_SIZE + 1 whose last member is arbitrary.
Batches ==
    SeqsUpTo(Requests, MaxFree)
    \cup { Padding(n) \o t : n \in 1..MAX_BATCH_SIZE, t \in SeqsUpTo(Requests, 1) }

\* ------------------------------------------------------------------------
\* State
\* ------------------------------------------------------------------------

VARIABLES
    swaps,                \* batch_swap: the argument of the running invocation
    pc,                   \* batch_swap: position inside handler
    index,                \* batch_swap: member the current loop is at (1-based)
    total_input_amount,   \* batch_swap: local accumulator
    total_protocol_fees,  \* batch_swap: local accumulator
    result,               \* batch_swap: what the invocation returned
    failed_step,          \* batch_swap: the statement that returned the error
    events,               \* BatchSwapEvents emitted, oldest first
    pending,              \* batches still to be submitted, in order
    returned,             \* finished invocations: argument, result, event
    amount,               \* fee calculation: the input amount
    fee_pc,               \* fee calculation: position
    protocol_fee,         \* fee calculation: Result of calculate_protocol_fee
    swap_amount,          \* fee calculation: Result of amount_after_fee
    expected,             \* slippage functions: expected output
    actual,               \* slippage functions: actual output
    actual_other,         \* slippage functions: a second actual output
    min_output,           \* slippage functions: the caller's floor
    max_slippage_bps,     \* slippage functions: the tolerance
    slip_pc,              \* slippage functions: position
    slippage,             \* Option of calculate_slippage(expected, actual)
    slippage_other,       \* Option of calculate_slippage(expected, actual_other)
    client_slippage,      \* Option of the client's calculate_slippage_bps
    verdict,              \* Result of validate_slippage
    accounts,             \* execute_swap: ctx.accounts as deserialized at entry
    delivered,            \* execute_swap: what the transaction's swap paid out
    min_output_amount,    \* execute_swap: argument
    expected_output,      \* execute_swap: argument
    swap_pc,              \* execute_swap: position inside handler
    fee_recipient_provided,  \* execute_swap: local of STEP 5
    output_balance_before,   \* execute_swap: local of STEP 7
    output_balance_after,    \* execute_swap: local of STEP 7
    actual_output,        \* execute_swap: local of STEP 7
    slippage_verified,    \* execute_swap: validate_slippage has been called
    slippage_bps,         \* execute_swap: local of STEP 8
    transfers,            \* execute_swap: token transfers made, oldest first
    swap_events,          \* SwapExecutedEvents emitted, oldest first
    swap_result,          \* execute_swap: what the invocation returned
    swap_failed_step,     \* execute_swap: the step that returned the error
    math_width,           \* SafeMath: the implementing type, "u64" or "u128"
    math_self,            \* SafeMath: the receiver
    math_rhs,             \* SafeMath: the argument
    math_pc,              \* SafeMath: the operation applied next
    math_results,         \* SafeMath: Result of each operation applied
    other,                \* batch_swap: the call frame of a second, concurrent invocation
    id_pc,                \* program id: the conversion that runs next
    id_input,             \* program id: what the running conversion has not consumed yet
    id_buffer,            \* program id: little-endian digits the running conversion built
    declared_id,          \* program id: crate::ID of the on-chain program
    program_id,           \* program id: value of get_batch_swap_router_program_id()
    program_id_string,    \* program id: program_id.to_string() in test_program_id
    test_result,          \* program id: outcome of test_program_id
    after_args,           \* amount after fee: the arguments amount, fee, min_amount
    after_pc,             \* amount after fee: the function applied next
    after_amount,         \* amount after fee: Result of amount_after_fee
    after_valid,          \* amount after fee: Result of validate_amount_after_fee
    acceptable,           \* slippage: value of is_slippage_acceptable, once computed
    client_op,            \* client: the method called, "batch_swap" or "execute_swap"
    client_args,          \* client: its arguments
    client_pc,            \* client: position inside the method
    client_index,         \* client: member the validation loop of batch_swap is at
    client_result,        \* client: what the method returned
    client_submitted      \* client: the requests sent to the program

batch_vars ==
    <<swaps, pc, index, total_input_amount, total_protocol_fees, result,
      failed_step, events, pending, returned>>

fee_vars == <<amount, fee_pc, protocol_fee, swap_amount>>

slip_vars ==
    <<expected, actual, actual_other, min_output, max_slippage_bps, slip_pc,
      slippage, slippage_other, client_slippage, verdict>>

\* execute_swap keeps its amount, protocol_fee and _swap_amount in the
\* variables of the fee calculation.
swap_vars ==
    <<accounts, delivered, min_output_amount, expected_output, swap_pc,
      fee_recipient_provided, output_balance_before, output_balance_after,
      actual_output, slippage_verified, slippage_bps, transfers, swap_events,
      swap_result, swap_failed_step>>

math_vars == <<math_width, math_self, math_rhs, math_pc, math_results>>

conc_vars == <<other>>

id_vars ==
    <<id_pc, id_input, id_buffer, declared_id, program_id, program_id_string, test_result>>

after_vars == <<after_args, after_pc, after_amount, after_valid>>

accept_vars == <<acceptable>>

client_vars ==
    <<client_op, client_args, client_pc, client_index, client_result, client_submitted>>

vars ==
    <<batch_vars, fee_vars, slip_vars, swap_vars, math_vars, conc_vars, id_vars,
      after_vars, accept_vars, client_vars>>

\* What each component leaves alone.
not_batch_vars ==
    <<fee_vars, slip_vars, swap_vars, math_vars, conc_vars, id_vars, after_vars,
      accept_vars, client_vars>>

not_fee_vars ==
    <<batch_vars, slip_vars, swap_vars, math_vars, conc_vars, id_vars, after_vars,
      accept_vars, client_vars>>

not_slip_vars ==
    <<batch_vars, fee_vars, swap_vars, math_vars, conc_vars, id_vars, after_vars,
      accept_vars, client_vars>>

not_swap_vars ==
    <<batch_vars, fee_pc, slip_vars, math_vars, conc_vars, id_vars, after_vars,
      accept_vars, client_vars>>

not_math_vars ==
    <<batch_vars, fee_vars, slip_vars, swap_vars, conc_vars, id_vars, after_vars,
      accept_vars, client_vars>>

not_conc_vars ==
    <<fee_vars, slip_vars, swap_vars, math_vars, id_vars, after_vars,
      accept_vars, client_vars>>

not_id_vars ==
    <<batch_vars, fee_vars, slip_vars, swap_vars, math_vars, conc_vars, after_vars,
      accept_vars, client_vars>>

not_after_vars ==
    <<batch_vars, fee_vars, slip_vars, swap_vars, math_vars, conc_vars, id_vars,
      accept_vars, client_vars>>

not_client_vars ==
    <<batch_vars, fee_vars, slip_vars, swap_vars, math_vars, conc_vars, id_vars,
      after_vars, accept_vars>>

\* is_slippage_acceptable is applied to the arguments of the slippage
\* calculation.
not_accept_vars ==
    <<batch_vars, fee_vars, swap_vars, math_vars, conc_vars, id_vars, after_vars, client_vars>>

NotReturned == [ok |-> FALSE, val |-> 0, err |-> "running"]

NoResult == [ok |-> FALSE, val |-> 0, err |-> "not computed"]

\* An Option that no function has returned yet.
NotComputed == [some |-> FALSE, val |-> 0 - 1]

FeeIdle ==
    /\ amount = 0
    /\ fee_pc = "idle"
    /\ protocol_fee = NoResult
    /\ swap_amount = NoResult

BatchStart(batch, rest) ==
    /\ swaps = batch
    /\ pending = rest
    /\ pc = "start"
    /\ index = 0
    /\ total_input_amount = 0
    /\ total_protocol_fees = 0
    /\ result = NotReturned
    /\ failed_step = "none"
    /\ events = <<>>
    /\ returned = <<>>

\* No invocation of batch_swap.
BatchIdle ==
    /\ swaps = <<>>
    /\ pending = <<>>
    /\ pc = "idle"
    /\ index = 0
    /\ total_input_amount = 0
    /\ total_protocol_fees = 0
    /\ result = NotReturned
    /\ failed_step = "none"
    /\ events = <<>>
    /\ returned = <<>>

SlipStart(e, a, a2, m, b, at) ==
    /\ expected = e
    /\ actual = a
    /\ actual_other = a2
    /\ min_output = m
    /\ max_slippage_bps = b
    /\ slip_pc = at
    /\ slippage = NotComputed
    /\ slippage_other = NotComputed
    /\ client_slippage = NotComputed
    /\ verdict = NoResult

SlipIdle == SlipStart(0, 0, 0, 0, 0, "idle")

\* ctx.accounts of execute_swap.  The authority is a Signer<'info>: the
\* framework has refused the instruction before handler when it did not sign.
Accounts(in_mint, in_owner, in_amount, out_mint, out_amount, in_key, out_key, recipient) ==
    [authority            |-> [key |-> "authority", is_signer |-> TRUE],
     input_token_account  |-> [mint |-> in_mint, owner |-> in_owner, amount |-> in_amount],
     output_token_account |-> [mint |-> out_mint, owner |-> "authority", amount |-> out_amount],
     input_mint           |-> in_key,
     output_mint          |-> out_key,
     fee_recipient        |-> recipient]

\* The account passed as fee_recipient: its owning program, whether its
\* data deserializes as a TokenAccount, and the mint it then holds.
FeeRecipient(owner, is_token_account, mint) ==
    [owner |-> owner, is_token_account |-> is_token_account, mint |-> mint, amount |-> 0]

NoFeeRecipient == FeeRecipient("system_program", FALSE, DefaultPubkey)

SwapStart(accts, paid, min_out, exp_out, at) ==
    /\ accounts = accts
    /\ delivered = paid
    /\ min_output_amount = min_out
    /\ expected_output = exp_out
    /\ swap_pc = at
    /\ fee_recipient_provided = FALSE
    /\ output_balance_before = 0
    /\ output_balance_after = 0
    /\ actual_output = 0
    /\ slippage_verified = FALSE
    /\ slippage_bps = 0
    /\ transfers = <<>>
    /\ swap_events = <<>>
    /\ swap_result = NotReturned
    /\ swap_failed_step = "none"

SwapIdle ==
    SwapStart(Accounts(1, "authority", 0, 2, 0, 1, 2, NoFeeRecipient), 0, 0, 0, "idle")

MathStart(width, x, y, at) ==
    /\ math_width = width
    /\ math_self = x
    /\ math_rhs = y
    /\ math_pc = at
    /\ math_results = [add |-> NoResult, sub |-> NoResult, mul |-> NoResult, div |-> NoResult]

MathIdle == MathStart("u64", 0, 0, "idle")

\* The locals of one invocation of batch_swap entered with `batch`;
\* `overlapped` records that the invocation took a step while the first
\* invocation was between its entry and its return.
Frame(batch, at) ==
    [swaps |-> batch, pc |-> at, index |-> 0,
     total_input_amount |-> 0, total_protocol_fees |-> 0,
     result |-> NotReturned, failed_step |-> "none", events |-> <<>>,
     overlapped |-> FALSE]

ConcIdle == other = Frame(<<>>, "idle")

IdStart(text, at) ==
    /\ id_pc = at
    /\ id_input = text
    /\ id_buffer = <<>>
    /\ declared_id = NoResult
    /\ program_id = NoResult
    /\ program_id_string = <<>>
    /\ test_result = "not run"

IdIdle == IdStart(<<>>, "idle")

AfterStart(a, f, m, at) ==
    /\ after_args = [amount |-> a, fee |-> f, min_amount |-> m]
    /\ after_pc = at
    /\ after_amount = NoResult
    /\ after_valid = NoResult

AfterIdle == AfterStart(0, 0, 0, "idle")

\* is_slippage_acceptable has not been called.
AcceptIdle == acceptable = [some |-> FALSE, val |-> FALSE]

\* ContractError::InvalidAccount(msg), ContractError::TransactionFailed(msg).
ContractError(kind, msg) == [kind |-> kind, msg |-> msg]

ClientNotReturned == Err(ContractError("running", ""))

ClientStart(op, args, at) ==
    /\ client_op = op
    /\ client_args = args
    /\ client_pc = at
    /\ client_index = 0
    /\ client_result = ClientNotReturned
    /\ client_submitted = <<>>

ClientIdle == ClientStart("none", <<>>, "idle")

\* Every component outside `running` is at rest.
IdleExcept(running) ==
    /\ IF "batch" \in running THEN TRUE ELSE BatchIdle
    /\ IF "fee" \in running THEN TRUE ELSE FeeIdle
    /\ IF "slip" \in running THEN TRUE ELSE SlipIdle
    /\ IF "swap" \in running THEN TRUE ELSE SwapIdle
    /\ IF "math" \in running THEN TRUE ELSE MathIdle
    /\ IF "conc" \in running THEN TRUE ELSE ConcIdle
    /\ IF "id" \in running THEN TRUE ELSE IdIdle
    /\ IF "after" \in running THEN TRUE ELSE AfterIdle
    /\ IF "accept" \in running THEN TRUE ELSE AcceptIdle
    /\ IF "client" \in running THEN TRUE ELSE ClientIdle

\* The handler returns `res`; `evs` are the events it emitted.
Return(res, step, evs) ==
    /\ pc' = "done"
    /\ result' = res
    /\ failed_step' = step
    /\ returned' = Append(returned, [swaps |-> swaps, result |-> res, emitted |-> evs])

\* ------------------------------------------------------------------------
\* batch_swap.rs: handler
\* ------------------------------------------------------------------------

\* STEP 1 with swaps.len() < MAX_BATCH_SIZE.
handler_ValidateBatchSize_strict ==
    /\ pc = "start"
    /\ IF Len(swaps) = 0
       THEN /\ Return(Err("EmptySwaps"), "size", <<>>)
            /\ UNCHANGED index
       ELSE IF ~(Len(swaps) < MAX_BATCH_SIZE)
       THEN /\ Return(Err("TooManySwaps"), "size", <<>>)
            /\ UNCHANGED index
       ELSE /\ pc' = "validate"
            /\ index' = 1
            /\ UNCHANGED <<result, failed_step, returned>>
    /\ UNCHANGED <<swaps, total_input_amount, total_protocol_fees, events, pending>>
    /\ UNCHANGED not_batch_vars

\* STEP 1 without the upper limit.
handler_ValidateBatchSize_no_upper ==
    /\ pc = "start"
    /\ IF Len(swaps) = 0
       THEN /\ Return(Err("EmptySwaps"), "size", <<>>)
            /\ UNCHANGED index
       ELSE /\ pc' = "validate"
            /\ index' = 1
            /\ UNCHANGED <<result, failed_step, returned>>
    /\ UNCHANGED <<swaps, total_input_amount, total_protocol_fees, events, pending>>
    /\ UNCHANGED not_batch_vars

\* STEP 1: require!(!swaps.is_empty()), require!(swaps.len() <= MAX_BATCH_SIZE).
\* STEP 2 (authority key, clock) reads the context and changes nothing here.
handler_ValidateBatchSize ==
    /\ pc = "start"
    /\ IF Len(swaps) = 0
       THEN /\ Return(Err("EmptySwaps"), "size", <<>>)
            /\ UNCHANGED index
       ELSE IF ~(Len(swaps) <= MAX_BATCH_SIZE)
       THEN /\ Return(Err("TooManySwaps"), "size", <<>>)
            /\ UNCHANGED index
       ELSE /\ pc' = "validate"
            /\ index' = 1
            /\ UNCHANGED <<result, failed_step, returned>>
    /\ UNCHANGED <<swaps, total_input_amount, total_protocol_fees, events, pending>>
    /\ UNCHANGED not_batch_vars

\* STEP 3 with a failed check logged and the loop continued.
handler_ValidateSwap_continue ==
    /\ pc = "validate"
    /\ IF index < Len(swaps)
       THEN /\ index' = index + 1
            /\ UNCHANGED <<pc, total_input_amount, total_protocol_fees>>
       ELSE /\ pc' = "accumulate"
            /\ index' = 1
            /\ total_input_amount' = 0
            /\ total_protocol_fees' = 0
    /\ UNCHANGED <<swaps, events, pending, result, failed_step, returned>>
    /\ UNCHANGED not_batch_vars

\* STEP 3 and STEP 4 in one loop: the amount of a member that passed its
\* checks is added to the running total before the next member is checked.
handler_ValidateSwap_accumulating ==
    /\ pc = "validate"
    /\ LET checked == validate_swap(swaps[index])
           input   == u64_safe_add(total_input_amount, swaps[index].amount)
       IN  IF ~checked.ok
           THEN /\ Return(checked, "validate", <<>>)
                /\ UNCHANGED <<index, total_input_amount, total_protocol_fees>>
           ELSE IF ~input.ok
           THEN /\ Return(input, "total_input_amount", <<>>)
                /\ UNCHANGED <<index, total_input_amount, total_protocol_fees>>
           ELSE IF index < Len(swaps)
           THEN /\ index' = index + 1
                /\ total_input_amount' = input.val
                /\ UNCHANGED <<pc, result, failed_step, returned, total_protocol_fees>>
           ELSE /\ pc' = "accumulate"
                /\ index' = 1
                /\ total_input_amount' = 0
                /\ total_protocol_fees' = 0
                /\ UNCHANGED <<result, failed_step, returned>>
    /\ UNCHANGED <<swaps, events, pending>>
    /\ UNCHANGED not_batch_vars

\* STEP 3: one iteration of `for (index, swap) in swaps.iter().enumerate()`.
handler_ValidateSwap ==
    /\ pc = "validate"
    /\ LET checked == validate_swap(swaps[index])
       IN  IF ~checked.ok
           THEN /\ Return(checked, "validate", <<>>)
                /\ UNCHANGED <<index, total_input_amount, total_protocol_fees>>
           ELSE IF index < Len(swaps)
           THEN /\ index' = index + 1
                /\ UNCHANGED <<pc, result, failed_step, returned,
                               total_input_amount, total_protocol_fees>>
           ELSE \* loop finished: let mut total_input_amount = 0, ... = 0
                /\ pc' = "accumulate"
                /\ index' = 1
                /\ total_input_amount' = 0
                /\ total_protocol_fees' = 0
                /\ UNCHANGED <<result, failed_step, returned>>
    /\ UNCHANGED <<swaps, events, pending>>
    /\ UNCHANGED not_batch_vars

\* STEP 4 with the fee total recomputed from the running amount total.
handler_Accumulate_fee_of_total ==
    /\ pc = "accumulate"
    /\ LET swap   == swaps[index]
           input  == u64_safe_add(total_input_amount, swap.amount)
           fees   == calculate_protocol_fee(input.val)
       IN  IF ~input.ok
           THEN /\ Return(input, "total_input_amount", <<>>)
                /\ UNCHANGED <<index, total_input_amount, total_protocol_fees>>
           ELSE IF ~fees.ok
           THEN /\ Return(fees, "fee", <<>>)
                /\ UNCHANGED <<index, total_input_amount, total_protocol_fees>>
           ELSE /\ total_input_amount' = input.val
                /\ total_protocol_fees' = fees.val
                /\ IF index < Len(swaps)
                   THEN index' = index + 1 /\ pc' = pc
                   ELSE index' = index /\ pc' = "emit"
                /\ UNCHANGED <<result, failed_step, returned>>
    /\ UNCHANGED <<swaps, events, pending>>
    /\ UNCHANGED not_batch_vars

\* STEP 4: one iteration of `for swap in &swaps`.
handler_Accumulate ==
    /\ pc = "accumulate"
    /\ LET swap   == swaps[index]
           fee    == calculate_protocol_fee(swap.amount)
           input  == u64_safe_add(total_input_amount, swap.amount)
           fees   == u64_safe_add(total_protocol_fees, fee.val)
       IN  IF ~fee.ok
           THEN /\ Return(fee, "fee", <<>>)
                /\ UNCHANGED <<index, total_input_amount, total_protocol_fees>>
           ELSE IF ~input.ok
           THEN /\ Return(input, "total_input_amount", <<>>)
                /\ UNCHANGED <<index, total_input_amount, total_protocol_fees>>
           ELSE IF ~fees.ok
           THEN /\ Return(fees, "total_protocol_fees", <<>>)
                /\ total_input_amount' = input.val
                /\ UNCHANGED <<index, total_protocol_fees>>
           ELSE /\ total_input_amount' = input.val
                /\ total_protocol_fees' = fees.val
                /\ IF index < Len(swaps)
                   THEN index' = index + 1 /\ pc' = pc
                   ELSE index' = index /\ pc' = "emit"
                /\ UNCHANGED <<result, failed_step, returned>>
    /\ UNCHANGED <<swaps, events, pending>>
    /\ UNCHANGED not_batch_vars

\* STEP 6 and 7: swap_count = swaps.len() as u8; emit!(BatchSwapEvent); Ok(()).
handler_EmitEvent ==
    /\ pc = "emit"
    /\ LET swap_count == Len(swaps) % U8_RANGE
           event == [swap_count |-> swap_count,
                     total_input_amount |-> total_input_amount,
                     total_protocol_fees |-> total_protocol_fees]
       IN  /\ events' = Append(events, event)
           /\ Return(Ok(0), "none", <<event>>)
    /\ UNCHANGED <<swaps, index, total_input_amount, total_protocol_fees, pending>>
    /\ UNCHANGED not_batch_vars

\* The caller submits its next batch once the previous invocation returned.
Submit ==
    /\ pc = "done"
    /\ pending # <<>>
    /\ swaps' = Head(pending)
    /\ pending' = Tail(pending)
    /\ pc' = "start"
    /\ index' = 0
    /\ total_input_amount' = 0
    /\ total_protocol_fees' = 0
    /\ result' = NotReturned
    /\ failed_step' = "none"
    /\ UNCHANGED <<events, returned>>
    /\ UNCHANGED not_batch_vars

\* One invocation of batch_swap on an arbitrary batch.
Init ==
    /\ IdleExcept({"batch"})
    /\ \E batch \in Batches : BatchStart(batch, <<>>)

Next ==
    \/ handler_ValidateBatchSize
    \/ handler_ValidateSwap
    \/ handler_Accumulate
    \/ handler_EmitEvent

Spec == Init /\ [][Next]_vars

\* ------------------------------------------------------------------------
\* One invocation of batch_swap on batches whose every member is chosen
\* among valid requests, requests whose amounts overflow the total, and
\* invalid requests
\* ------------------------------------------------------------------------

FoldRequests ==
    {SwapParams(1, 2, 1000, 7),
     SwapParams(1, 2, U64_MAX \div 2 + 1, 7),
     SwapParams(1, 2, U64_MAX, 7),
     SwapParams(1, 1, 500, 1),
     SwapParams(1, 2, 0, 1)}

FoldBatches == SeqsUpTo(FoldRequests, MaxFoldLen)

InitFold ==
    /\ IdleExcept({"batch"})
    /\ \E batch \in FoldBatches : BatchStart(batch, <<>>)

NextFold ==
    \/ handler_ValidateBatchSize
    \/ handler_ValidateSwap
    \/ handler_Accumulate
    \/ handler_EmitEvent

SpecFold == InitFold /\ [][NextFold]_vars

\* ------------------------------------------------------------------------
\* Two requests submitted together, each alone, and together in the other
\* order
\* ------------------------------------------------------------------------

ValidRequests == { r \in Requests : validate_swap(r).ok }

InitPair ==
    /\ IdleExcept({"batch"})
    /\ \E r1 \in ValidRequests, r2 \in ValidRequests :
           BatchStart(<<r1, r2>>, << <<r1>>, <<r2>>, <<r2, r1>> >>)

NextPair ==
    \/ handler_ValidateBatchSize
    \/ handler_ValidateSwap
    \/ handler_Accumulate
    \/ handler_EmitEvent
    \/ Submit

SpecPair == InitPair /\ [][NextPair]_vars

\* ------------------------------------------------------------------------
\* The fee functions applied to one amount
\* ------------------------------------------------------------------------

FeeAmounts ==
    (0..MaxSmallAmount)
    \cup {9999, 10000, 10001, 1000000000,
          U64_MAX \div 30, U64_MAX \div 30 + 1, U64_MAX - 1, U64_MAX}

InitFee ==
    /\ IdleExcept({"fee"})
    /\ amount \in FeeAmounts
    /\ fee_pc = "fee"
    /\ protocol_fee = NoResult
    /\ swap_amount = NoResult

\* let protocol_fee = calculate_protocol_fee(amount)
FeeCalculate ==
    /\ fee_pc = "fee"
    /\ protocol_fee' = calculate_protocol_fee(amount)
    /\ fee_pc' = IF protocol_fee'.ok THEN "after" ELSE "done"
    /\ UNCHANGED <<amount, swap_amount>>
    /\ UNCHANGED not_fee_vars

\* let swap_amount = amount_after_fee(amount, protocol_fee)
FeeAmountAfter ==
    /\ fee_pc = "after"
    /\ swap_amount' = amount_after_fee(amount, protocol_fee.val)
    /\ fee_pc' = "done"
    /\ UNCHANGED <<amount, protocol_fee>>
    /\ UNCHANGED not_fee_vars

NextFee ==
    \/ FeeCalculate
    \/ FeeAmountAfter

SpecFee == InitFee /\ [][NextFee]_vars

\* ------------------------------------------------------------------------
\* calculate_slippage applied to one expectation and two outputs, and the
\* client's calculate_slippage_bps applied to the first
\* ------------------------------------------------------------------------

SlipExpected ==
    (0..MaxSmallOutput) \cup {100, 1000, 10000, 10001, 1000000, 1000000000, U64_MAX}

SlipActual ==
    (0..(MaxSmallOutput + 1))
    \cup {94, 95, 99, 100, 105, 990, 1000, 9999, 900000, 995000000, 1000000000,
          U64_MAX \div 2, U64_MAX - 1, U64_MAX}

InitSlip ==
    /\ IdleExcept({"slip"})
    /\ \E e \in SlipExpected, a \in SlipActual, a2 \in SlipActual :
           SlipStart(e, a, a2, 0, 0, "calculate")

SlipCalculate ==
    /\ slip_pc = "calculate"
    /\ slippage' = calculate_slippage(expected, actual)
    /\ slip_pc' = "other"
    /\ UNCHANGED <<expected, actual, actual_other, min_output, max_slippage_bps,
                   slippage_other, client_slippage, verdict>>
    /\ UNCHANGED not_slip_vars

SlipCalculateOther ==
    /\ slip_pc = "other"
    /\ slippage_other' = calculate_slippage(expected, actual_other)
    /\ slip_pc' = "client"
    /\ UNCHANGED <<expected, actual, actual_other, min_output, max_slippage_bps,
                   slippage, client_slippage, verdict>>
    /\ UNCHANGED not_slip_vars

SlipClient ==
    /\ slip_pc = "client"
    /\ client_slippage' = calculate_slippage_bps(expected, actual)
    /\ slip_pc' = "done"
    /\ UNCHANGED <<expected, actual, actual_other, min_output, max_slippage_bps,
                   slippage, slippage_other, verdict>>
    /\ UNCHANGED not_slip_vars

NextSlip ==
    \/ SlipCalculate
    \/ SlipCalculateOther
    \/ SlipClient

SpecSlip == InitSlip /\ [][NextSlip]_vars

\* ------------------------------------------------------------------------
\* validate_slippage applied to one quadruple
\* ------------------------------------------------------------------------

VerifyExpected == {0, 1, 100, 1000, 10000, U64_MAX}

VerifyActual == {0, 1, 89, 90, 94, 95, 99, 100, 105, 950, 9499, 9500, U64_MAX}

VerifyMinOutput == {0, 1, 90, 95, 96, 101, U64_MAX}

VerifyMaxBps == {0, 100, 499, MAX_SLIPPAGE_BPS, 10000, U64_MAX}

InitVerify ==
    /\ IdleExcept({"slip"})
    /\ \E e \in VerifyExpected, a \in VerifyActual,
          m \in VerifyMinOutput, b \in VerifyMaxBps :
           SlipStart(e, a, 0, m, b, "slippage")

\* The slippage the verification reports.
VerifySlippage ==
    /\ slip_pc = "slippage"
    /\ slippage' = calculate_slippage(expected, actual)
    /\ slip_pc' = "validate"
    /\ UNCHANGED <<expected, actual, actual_other, min_output, max_slippage_bps,
                   slippage_other, client_slippage, verdict>>
    /\ UNCHANGED not_slip_vars

VerifyValidate ==
    /\ slip_pc = "validate"
    /\ verdict' = validate_slippage(expected, actual, min_output, max_slippage_bps)
    /\ slip_pc' = "verified"
    /\ UNCHANGED <<expected, actual, actual_other, min_output, max_slippage_bps,
                   slippage, slippage_other, client_slippage>>
    /\ UNCHANGED not_slip_vars

NextVerify ==
    \/ VerifySlippage
    \/ VerifyValidate

SpecVerify == InitVerify /\ [][NextVerify]_vars

\* ------------------------------------------------------------------------
\* Two invocations of batch_swap running at the same time: the first in the
\* batch_swap variables, the second in the frame `other`
\* ------------------------------------------------------------------------

frame_Return(f, res, step) ==
    [f EXCEPT !.pc = "done", !.result = res, !.failed_step = step]

\* STEP 1 on the frame f.
frame_ValidateBatchSize(f) ==
    IF Len(f.swaps) = 0 THEN frame_Return(f, Err("EmptySwaps"), "size")
    ELSE IF ~(Len(f.swaps) <= MAX_BATCH_SIZE) THEN frame_Return(f, Err("TooManySwaps"), "size")
    ELSE [f EXCEPT !.pc = "validate", !.index = 1]

\* STEP 3, one iteration, on the frame f.
frame_ValidateSwap(f) ==
    LET checked == validate_swap(f.swaps[f.index])
    IN  IF ~checked.ok THEN frame_Return(f, checked, "validate")
        ELSE IF f.index < Len(f.swaps) THEN [f EXCEPT !.index = f.index + 1]
        ELSE [f EXCEPT !.pc = "accumulate", !.index = 1,
                       !.total_input_amount = 0, !.total_protocol_fees = 0]

\* STEP 4, one iteration, on the frame f whose running totals before the
\* iteration are total_input and total_fees.
frame_AccumulateOnto(f, total_input, total_fees) ==
    LET swap  == f.swaps[f.index]
        fee   == calculate_protocol_fee(swap.amount)
        input == u64_safe_add(total_input, swap.amount)
        fees  == u64_safe_add(total_fees, fee.val)
    IN  IF ~fee.ok THEN frame_Return(f, fee, "fee")
        ELSE IF ~input.ok THEN frame_Return(f, input, "total_input_amount")
        ELSE IF ~fees.ok
        THEN [frame_Return(f, fees, "total_protocol_fees")
                 EXCEPT !.total_input_amount = input.val]
        ELSE [f EXCEPT !.total_input_amount = input.val,
                       !.total_protocol_fees = fees.val,
                       !.index = IF f.index < Len(f.swaps) THEN f.index + 1 ELSE f.index,
                       !.pc = IF f.index < Len(f.swaps) THEN f.pc ELSE "emit"]

\* STEP 4: `let mut` totals, local to the invocation.
frame_Accumulate(f) ==
    frame_AccumulateOnto(f, f.total_input_amount, f.total_protocol_fees)

\* STEP 6 and 7 on the frame f.
frame_EmitEvent(f) ==
    LET event == [swap_count |-> Len(f.swaps) % U8_RANGE,
                  total_input_amount |-> f.total_input_amount,
                  total_protocol_fees |-> f.total_protocol_fees]
    IN  [frame_Return(f, Ok(0), "none") EXCEPT !.events = Append(f.events, event)]

\* The next step of the invocation whose frame is f.
frame_Step(f) ==
    IF f.pc = "start" THEN frame_ValidateBatchSize(f)
    ELSE IF f.pc = "validate" THEN frame_ValidateSwap(f)
    ELSE IF f.pc = "accumulate" THEN frame_Accumulate(f)
    ELSE frame_EmitEvent(f)

\* The invocation run from f to its return with nothing else running.
RECURSIVE RunAlone(_)
RunAlone(f) ==
    IF f.pc = "done" THEN f ELSE RunAlone(frame_Step(f))

\* The first invocation is between entry and return.
FirstRunning == pc \in {"validate", "accumulate", "emit"}

other_Becomes(f) ==
    /\ other' = [f EXCEPT !.overlapped = other.overlapped \/ FirstRunning]
    /\ UNCHANGED batch_vars
    /\ UNCHANGED not_conc_vars

other_handler_ValidateBatchSize ==
    /\ other.pc = "start"
    /\ other_Becomes(frame_ValidateBatchSize(other))

other_handler_ValidateSwap ==
    /\ other.pc = "validate"
    /\ other_Becomes(frame_ValidateSwap(other))

\* STEP 4 with the totals kept in one place for all invocations.
other_handler_Accumulate_shared ==
    /\ other.pc = "accumulate"
    /\ other_Becomes(frame_AccumulateOnto(other, total_input_amount, total_protocol_fees))

other_handler_Accumulate ==
    /\ other.pc = "accumulate"
    /\ other_Becomes(frame_Accumulate(other))

other_handler_EmitEvent ==
    /\ other.pc = "emit"
    /\ other_Becomes(frame_EmitEvent(other))

\* A valid request, a valid request whose amount overflows any total it is
\* added to, and a request with equal mints.
ConcRequests ==
    {SwapParams(1, 2, 1000, 7), SwapParams(1, 2, U64_MAX, 7), SwapParams(1, 1, 500, 1)}

ConcBatches == SeqsUpTo(ConcRequests, MaxConcLen)

InitConc ==
    /\ IdleExcept({"batch", "conc"})
    /\ \E batch \in ConcBatches : BatchStart(batch, <<>>)
    /\ \E batch \in ConcBatches : other = Frame(batch, "start")

NextConc ==
    \/ handler_ValidateBatchSize
    \/ handler_ValidateSwap
    \/ handler_Accumulate
    \/ handler_EmitEvent
    \/ other_handler_ValidateBatchSize
    \/ other_handler_ValidateSwap
    \/ other_handler_Accumulate
    \/ other_handler_EmitEvent

SpecConc == InitConc /\ [][NextConc]_vars

\* ------------------------------------------------------------------------
\* Program id: declare_id! of the program, get_batch_swap_router_program_id
\* of the client and the client's test_program_id
\* ------------------------------------------------------------------------

\* A string is the sequence of its characters.
Base58Alphabet ==
    <<"1", "2", "3", "4", "5", "6", "7", "8", "9", "A", "B",
      "C", "D", "E", "F", "G", "H", "J", "K", "L", "M", "N",
      "P", "Q", "R", "S", "T", "U", "V", "W", "X", "Y", "Z",
      "a", "b", "c", "d", "e", "f", "g", "h", "i", "j", "k",
      "m", "n", "o", "p", "q", "r", "s", "t", "u", "v", "w",
      "x", "y", "z">>

\* declare_id!(...) in the program's lib.rs.
DeclaredIdText ==
    <<"H", "S", "6", "3", "b", "w", "1", "V", "1", "q", "T",
      "M", "5", "u", "W", "f", "9", "2", "q", "3", "u", "a",
      "F", "d", "q", "o", "g", "r", "c", "4", "S", "N", "9",
      "q", "U", "J", "S", "R", "8", "a", "q", "B", "M", "x">>

\* The literal parsed by get_batch_swap_router_program_id.
ClientIdText ==
    <<"C", "4", "8", "g", "m", "s", "h", "k", "E", "L", "8",
      "U", "d", "C", "e", "8", "G", "c", "p", "Z", "K", "G",
      "w", "r", "E", "f", "C", "L", "b", "W", "W", "q", "4",
      "z", "k", "2", "3", "t", "H", "m", "N", "D", "c", "E">>

\* The literal test_program_id compares with.
TestIdText ==
    <<"7", "x", "K", "X", "t", "g", "2", "C", "W", "8", "7",
      "d", "9", "7", "T", "X", "J", "S", "D", "p", "b", "D",
      "5", "j", "B", "k", "h", "e", "T", "q", "A", "8", "3",
      "T", "Z", "R", "u", "J", "o", "s", "g", "A", "s", "U">>

\* Value of the base-58 character c; 58 when c is not in the alphabet.
Base58Value(c) ==
    IF \E k \in 1..Len(Base58Alphabet) : Base58Alphabet[k] = c
    THEN (CHOOSE k \in 1..Len(Base58Alphabet) : Base58Alphabet[k] = c) - 1
    ELSE Len(Base58Alphabet)

\* The little-endian number `le` in radix `radix`, times mul, plus carry.
RECURSIVE ScaleAdd(_, _, _, _)
ScaleAdd(le, mul, carry, radix) ==
    IF le = <<>>
    THEN IF carry = 0 THEN <<>>
         ELSE <<carry % radix>> \o ScaleAdd(<<>>, mul, carry \div radix, radix)
    ELSE LET v == Head(le) * mul + carry
         IN  <<v % radix>> \o ScaleAdd(Tail(le), mul, v \div radix, radix)

RECURSIVE Reverse(_)
Reverse(q) == IF q = <<>> THEN <<>> ELSE Append(Reverse(Tail(q)), Head(q))

\* Number of leading members of q equal to x.
RECURSIVE Leading(_, _)
Leading(q, x) ==
    IF q # <<>> /\ Head(q) = x THEN 1 + Leading(Tail(q), x) ELSE 0

\* Pubkey::from_str once every character of text went into the
\* little-endian bytes le: leading '1's are zero bytes, 32 bytes in all.
pubkey_from_decoded(text, le) ==
    LET bytes == [k \in 1..Leading(text, "1") |-> 0] \o Reverse(le)
    IN  IF Len(bytes) = 32 THEN Ok(bytes) ELSE Err("WrongSize")

\* Pubkey::to_string once every byte went into the little-endian base-58
\* digits le: leading zero bytes are '1's.
pubkey_to_encoded(bytes, le) ==
    [k \in 1..Leading(bytes, 0) |-> "1"]
    \o [k \in 1..Len(le) |-> Base58Alphabet[Reverse(le)[k] + 1]]

\* One character of a base-58 text goes into the bytes.
decode_Char ==
    /\ id_input # <<>>
    /\ Base58Value(Head(id_input)) < Len(Base58Alphabet)
    /\ id_buffer' = ScaleAdd(id_buffer, Len(Base58Alphabet), Base58Value(Head(id_input)), 256)
    /\ id_input' = Tail(id_input)

\* declare_id!: the literal becomes crate::ID.
declare_id ==
    /\ id_pc = "declare_id"
    /\ IF id_input # <<>>
       THEN /\ decode_Char
            /\ UNCHANGED <<id_pc, declared_id>>
       ELSE /\ declared_id' = pubkey_from_decoded(DeclaredIdText, id_buffer)
            /\ id_pc' = "get_program_id"
            /\ id_input' = ClientIdText
            /\ id_buffer' = <<>>
    /\ UNCHANGED <<program_id, program_id_string, test_result>>
    /\ UNCHANGED not_id_vars

\* get_batch_swap_router_program_id: "...".parse().expect(...).
get_batch_swap_router_program_id ==
    /\ id_pc = "get_program_id"
    /\ IF id_input # <<>>
       THEN /\ decode_Char
            /\ UNCHANGED <<id_pc, program_id>>
       ELSE /\ program_id' = pubkey_from_decoded(ClientIdText, id_buffer)
            /\ id_pc' = "to_string"
            /\ id_input' = pubkey_from_decoded(ClientIdText, id_buffer).val
            /\ id_buffer' = <<>>
    /\ UNCHANGED <<declared_id, program_id_string, test_result>>
    /\ UNCHANGED not_id_vars

\* program_id.to_string() in test_program_id, one byte at a time.
to_string ==
    /\ id_pc = "to_string"
    /\ program_id.ok
    /\ IF id_input # <<>>
       THEN /\ id_buffer' = ScaleAdd(id_buffer, 256, Head(id_input), Len(Base58Alphabet))
            /\ id_input' = Tail(id_input)
            /\ UNCHANGED <<id_pc, program_id_string>>
       ELSE /\ program_id_string' = pubkey_to_encoded(program_id.val, id_buffer)
            /\ id_pc' = "assert_eq"
            /\ UNCHANGED <<id_input, id_buffer>>
    /\ UNCHANGED <<declared_id, program_id, test_result>>
    /\ UNCHANGED not_id_vars

\* test_program_id: assert_eq!(program_id.to_string(), "...").
test_program_id ==
    /\ id_pc = "assert_eq"
    /\ test_result' = IF program_id_string = TestIdText THEN "passed" ELSE "failed"
    /\ id_pc' = "done"
    /\ UNCHANGED <<id_input, id_buffer, declared_id, program_id, program_id_string>>
    /\ UNCHANGED not_id_vars

InitId ==
    /\ IdleExcept({"id"})
    /\ IdStart(DeclaredIdText, "declare_id")

NextId ==
    \/ declare_id
    \/ get_batch_swap_router_program_id
    \/ to_string
    \/ test_program_id

SpecId == InitId /\ [][NextId]_vars

\* ------------------------------------------------------------------------
\* amount_after_fee and validate_amount_after_fee applied to arbitrary
\* arguments
\* ------------------------------------------------------------------------

AfterValues == {0, 1, 2, 333, U64_MAX - 1, U64_MAX}

InitAfter ==
    /\ IdleExcept({"after"})
    /\ \E a \in AfterValues, f \in AfterValues, m \in AfterValues :
           AfterStart(a, f, m, "amount_after_fee")

AfterAmount ==
    /\ after_pc = "amount_after_fee"
    /\ after_amount' = amount_after_fee(after_args.amount, after_args.fee)
    /\ after_pc' = "validate"
    /\ UNCHANGED <<after_args, after_valid>>
    /\ UNCHANGED not_after_vars

AfterValidate ==
    /\ after_pc = "validate"
    /\ after_valid' =
           validate_amount_after_fee(after_args.amount, after_args.fee, after_args.min_amount)
    /\ after_pc' = "done"
    /\ UNCHANGED <<after_args, after_amount>>
    /\ UNCHANGED not_after_vars

NextAfter ==
    \/ AfterAmount
    \/ AfterValidate

SpecAfter == InitAfter /\ [][NextAfter]_vars

\* ------------------------------------------------------------------------
\* The two tolerance decisions on one (expected, actual, tolerance):
\* calculate_slippage with validate_slippage, and is_slippage_acceptable
\* ------------------------------------------------------------------------

AcceptExpected == {0, 1, 3, 100, 1000, 10000, 20000, U64_MAX}

AcceptActual == {0, 1, 2, 94, 95, 96, 99, 100, 995, 9500, 18999, 19000, U64_MAX}

AcceptTolerance == {0, 100, MAX_SLIPPAGE_BPS, 9999, 10000, 10001, U64_MAX}

InitAccept ==
    /\ IdleExcept({"slip"})
    /\ \E e \in AcceptExpected, a \in AcceptActual, t \in AcceptTolerance :
           SlipStart(e, a, 0, 0, t, "slippage")

AcceptDecide ==
    /\ slip_pc = "verified"
    /\ acceptable' = Some(is_slippage_acceptable(expected, actual, max_slippage_bps))
    /\ slip_pc' = "decided"
    /\ UNCHANGED <<expected, actual, actual_other, min_output, max_slippage_bps,
                   slippage, slippage_other, client_slippage, verdict>>
    /\ UNCHANGED not_accept_vars

NextAccept ==
    \/ VerifySlippage
    \/ VerifyValidate
    \/ AcceptDecide

SpecAccept == InitAccept /\ [][NextAccept]_vars

\* ------------------------------------------------------------------------
\* client: BatchSwapRouterClient::execute_swap
\* ------------------------------------------------------------------------

ClientReturn(res) ==
    /\ client_pc' = "done"
    /\ client_result' = res

\* The parameter checks with the mints compared first, as
\* SwapParams::validate has them.
client_execute_swap_Validate_mints_first ==
    /\ client_op = "execute_swap"
    /\ client_pc = "validate"
    /\ IF client_args.input_mint = client_args.output_mint
       THEN ClientReturn(Err(ContractError("InvalidAccount",
                                           "Input and output mints must differ")))
       ELSE IF client_args.amount = 0
       THEN ClientReturn(Err(ContractError("InvalidAccount",
                                           "Amount must be greater than zero")))
       ELSE IF client_args.min_output_amount = 0
       THEN ClientReturn(Err(ContractError("InvalidAccount",
                                           "Minimum output amount must be greater than zero")))
       ELSE client_pc' = "build" /\ UNCHANGED client_result
    /\ UNCHANGED <<client_op, client_args, client_index, client_submitted>>
    /\ UNCHANGED not_client_vars

\* if amount == 0, if min_output_amount == 0, if _input_mint == _output_mint.
client_execute_swap_Validate ==
    /\ client_op = "execute_swap"
    /\ client_pc = "validate"
    /\ IF client_args.amount = 0
       THEN ClientReturn(Err(ContractError("InvalidAccount",
                                           "Amount must be greater than zero")))
       ELSE IF client_args.min_output_amount = 0
       THEN ClientReturn(Err(ContractError("InvalidAccount",
                                           "Minimum output amount must be greater than zero")))
       ELSE IF client_args.input_mint = client_args.output_mint
       THEN ClientReturn(Err(ContractError("InvalidAccount",
                                           "Input and output mints must differ")))
       ELSE client_pc' = "build" /\ UNCHANGED client_result
    /\ UNCHANGED <<client_op, client_args, client_index, client_submitted>>
    /\ UNCHANGED not_client_vars

\* "Build the instruction request": nothing is built or sent, the method
\* returns TransactionFailed.
client_execute_swap_Build ==
    /\ client_op = "execute_swap"
    /\ client_pc = "build"
    /\ ClientReturn(Err(ContractError(
           "TransactionFailed",
           "Execute swap requires Anchor IDL types. Build the program with 'anchor build' first, then use the generated IDL types with anchor-client.")))
    /\ UNCHANGED <<client_op, client_args, client_index, client_submitted>>
    /\ UNCHANGED not_client_vars

ClientAmounts == {0, 1, MIN_SWAP_AMOUNT, 1000, U64_MAX}

ClientMinOutputs == {0, 1, U64_MAX}

ClientExpectedOutputs == {0, 100}

InitClientSwap ==
    /\ IdleExcept({"client"})
    /\ \E i \in Pubkeys, o \in Pubkeys, a \in ClientAmounts,
          m \in ClientMinOutputs, e \in ClientExpectedOutputs :
           ClientStart("execute_swap",
                       [input_token_account |-> 1, output_token_account |-> 2,
                        input_mint |-> i, output_mint |-> o, amount |-> a,
                        min_output_amount |-> m, expected_output |-> e],
                       "validate")

NextClientSwap ==
    \/ client_execute_swap_Validate
    \/ client_execute_swap_Build

SpecClientSwap == InitClientSwap /\ [][NextClientSwap]_vars

\* ------------------------------------------------------------------------
\* client: SwapParams::validate and BatchSwapRouterClient::batch_swap, and
\* the program's handler on the same batch
\* ------------------------------------------------------------------------

\* client/src/types.rs.  The error is the message.
SwapParams_validate(swap) ==
    IF swap.input_mint = swap.output_mint THEN Err("Input and output mints must differ")
    ELSE IF swap.amount = 0 THEN Err("Amount must be greater than zero")
    ELSE IF swap.min_output_amount = 0
    THEN Err("Minimum output amount must be greater than zero")
    ELSE Ok(0)

\* for swap in &swaps { swap.validate().map_err(InvalidAccount)? }: one
\* iteration, or the end of the loop.
client_batch_swap_Validate ==
    /\ client_op = "batch_swap"
    /\ client_pc = "validate"
    /\ IF client_index >= Len(client_args)
       THEN /\ client_pc' = "build"
            /\ UNCHANGED <<client_index, client_result>>
       ELSE LET checked == SwapParams_validate(client_args[client_index + 1])
            IN  IF ~checked.ok
                THEN /\ ClientReturn(Err(ContractError("InvalidAccount", checked.err)))
                     /\ UNCHANGED client_index
                ELSE /\ client_index' = client_index + 1
                     /\ UNCHANGED <<client_pc, client_result>>
    /\ UNCHANGED <<client_op, client_args, client_submitted>>
    /\ UNCHANGED not_client_vars

\* "Build the instruction request": nothing is built or sent, the method
\* returns TransactionFailed.
client_batch_swap_Build ==
    /\ client_op = "batch_swap"
    /\ client_pc = "build"
    /\ ClientReturn(Err(ContractError(
           "TransactionFailed",
           "Batch swap requires Anchor IDL types. Build the program with 'anchor build' first, then use the generated IDL types with anchor-client.")))
    /\ UNCHANGED <<client_op, client_args, client_index, client_submitted>>
    /\ UNCHANGED not_client_vars

\* A valid request and one request for each thing the program refuses.
ClientRequests ==
    {SwapParams(1, 2, 1000, 7),
     SwapParams(DefaultPubkey, 2, 1000, 7),
     SwapParams(1, DefaultPubkey, 1000, 7),
     SwapParams(1, 1, 1000, 7),
     SwapParams(1, 2, 0, 7),
     SwapParams(1, 2, 1000, 0)}

ClientBatches ==
    SeqsUpTo(ClientRequests, MaxConcLen)
    \cup {Padding(MAX_BATCH_SIZE), Padding(MAX_BATCH_SIZE + 1)}

\* The same batch given to the client's batch_swap and to the program's
\* handler.
InitClientBatch ==
    /\ IdleExcept({"client", "batch"})
    /\ \E batch \in ClientBatches :
           /\ ClientStart("batch_swap", batch, "validate")
           /\ BatchStart(batch, <<>>)

NextClientBatch ==
    \/ client_batch_swap_Validate
    \/ client_batch_swap_Build
    \/ handler_ValidateBatchSize
    \/ handler_ValidateSwap
    \/ handler_Accumulate
    \/ handler_EmitEvent

SpecClientBatch == InitClientBatch /\ [][NextClientBatch]_vars

\* ------------------------------------------------------------------------
\* The four SafeMath operations applied to one pair of operands of one of
\* the two implementing types
\* ------------------------------------------------------------------------

MathValues ==
    {0, 1, 2, 3, 7, 10000, 46340, 46341,
     U64_MAX \div 2, U64_MAX \div 2 + 1, U64_MAX - 1, U64_MAX}

MathWideValues ==
    { [hi |-> h, lo |-> l] :
        h \in {0, 1, U64_MAX \div 2 + 1, U64_MAX}, l \in {0, 3, U64_MAX} }

InitMath ==
    /\ IdleExcept({"math"})
    /\ \/ \E x \in MathValues, y \in MathValues : MathStart("u64", x, y, "add")
       \/ \E x \in MathWideValues, y \in MathWideValues : MathStart("u128", x, y, "add")

safe_add ==
    /\ math_pc = "add"
    /\ math_results' =
           [math_results EXCEPT !.add = IF math_width = "u64"
                                        THEN u64_safe_add(math_self, math_rhs)
                                        ELSE u128_safe_add(math_self, math_rhs)]
    /\ math_pc' = "sub"
    /\ UNCHANGED <<math_width, math_self, math_rhs>>
    /\ UNCHANGED not_math_vars

safe_sub ==
    /\ math_pc = "sub"
    /\ math_results' =
           [math_results EXCEPT !.sub = IF math_width = "u64"
                                        THEN u64_safe_sub(math_self, math_rhs)
                                        ELSE u128_safe_sub(math_self, math_rhs)]
    /\ math_pc' = "mul"
    /\ UNCHANGED <<math_width, math_self, math_rhs>>
    /\ UNCHANGED not_math_vars

safe_mul ==
    /\ math_pc = "mul"
    /\ math_results' =
           [math_results EXCEPT !.mul = IF math_width = "u64"
                                        THEN u64_safe_mul(math_self, math_rhs)
                                        ELSE u128_safe_mul(math_self, math_rhs)]
    /\ math_pc' = "div"
    /\ UNCHANGED <<math_width, math_self, math_rhs>>
    /\ UNCHANGED not_math_vars

safe_div ==
    /\ math_pc = "div"
    /\ math_results' =
           [math_results EXCEPT !.div = IF math_width = "u64"
                                        THEN u64_safe_div(math_self, math_rhs)
                                        ELSE u128_safe_div(math_self, math_rhs)]
    /\ math_pc' = "done"
    /\ UNCHANGED <<math_width, math_self, math_rhs>>
    /\ UNCHANGED not_math_vars

NextMath ==
    \/ safe_add
    \/ safe_sub
    \/ safe_mul
    \/ safe_div

SpecMath == InitMath /\ [][NextMath]_vars

\* ------------------------------------------------------------------------
\* execute_swap.rs: handler
\* ------------------------------------------------------------------------

SwapReturn(res, step) ==
    /\ swap_pc' = "done"
    /\ swap_result' = res
    /\ swap_failed_step' = step

\* STEP 2 with a refused minimum output recorded and the checks run again.
swap_handler_ValidateParams_retry ==
    /\ swap_pc = "start"
    /\ LET signed == assert_signer(accounts.authority)
       IN  IF ~signed.ok THEN SwapReturn(signed, "params")
           ELSE IF ~(amount >= MIN_SWAP_AMOUNT)
           THEN SwapReturn(Err("InvalidAmount"), "params")
           ELSE IF ~(min_output_amount > 0)
           THEN /\ swap_pc' = "start"
                /\ swap_result' = Err("InvalidMinOutput")
                /\ swap_failed_step' = "params"
           ELSE /\ swap_pc' = "accounts"
                /\ UNCHANGED <<swap_result, swap_failed_step>>
    /\ UNCHANGED <<accounts, delivered, min_output_amount, expected_output,
                   fee_recipient_provided, output_balance_before,
                   output_balance_after, actual_output, slippage_verified,
                   slippage_bps, transfers, swap_events>>
    /\ UNCHANGED <<amount, protocol_fee, swap_amount>>
    /\ UNCHANGED not_swap_vars

\* STEP 1 and STEP 2: the signer, the amount, the minimum output.
swap_handler_ValidateParams ==
    /\ swap_pc = "start"
    /\ LET signed == assert_signer(accounts.authority)
       IN  IF ~signed.ok THEN SwapReturn(signed, "params")
           ELSE IF ~(amount >= MIN_SWAP_AMOUNT)
           THEN SwapReturn(Err("InvalidAmount"), "params")
           ELSE IF ~(min_output_amount > 0)
           THEN SwapReturn(Err("InvalidMinOutput"), "params")
           ELSE /\ swap_pc' = "accounts"
                /\ UNCHANGED <<swap_result, swap_failed_step>>
    /\ UNCHANGED <<accounts, delivered, min_output_amount, expected_output,
                   fee_recipient_provided, output_balance_before,
                   output_balance_after, actual_output, slippage_verified,
                   slippage_bps, transfers, swap_events>>
    /\ UNCHANGED <<amount, protocol_fee, swap_amount>>
    /\ UNCHANGED not_swap_vars

\* STEP 3: the mints of the two token accounts differ and are the mints
\* passed.  STEP 4: the authority owns the input account.  STEP 5: a fee
\* recipient owned by the token program is a token account of the input
\* mint.
swap_handler_ValidateAccounts ==
    /\ swap_pc = "accounts"
    /\ fee_recipient_provided' = (accounts.fee_recipient.owner = "token_program")
    /\ LET different == assert_different_mints(accounts.input_token_account.mint,
                                               accounts.output_token_account.mint)
           input_key == assert_keys_equal(accounts.input_token_account.mint,
                                          accounts.input_mint)
           output_key == assert_keys_equal(accounts.output_token_account.mint,
                                           accounts.output_mint)
           owner == assert_token_account_owner(accounts.input_token_account,
                                               accounts.authority.key)
       IN  IF ~different.ok THEN SwapReturn(different, "accounts")
           ELSE IF ~input_key.ok THEN SwapReturn(input_key, "accounts")
           ELSE IF ~output_key.ok THEN SwapReturn(output_key, "accounts")
           ELSE IF ~owner.ok THEN SwapReturn(owner, "accounts")
           ELSE IF fee_recipient_provided' /\ ~accounts.fee_recipient.is_token_account
           THEN SwapReturn(Err("InvalidFeeRecipient"), "accounts")
           ELSE IF /\ fee_recipient_provided'
                   /\ accounts.fee_recipient.mint # accounts.input_token_account.mint
           THEN SwapReturn(Err("InvalidFeeRecipient"), "accounts")
           ELSE /\ swap_pc' = "fees"
                /\ UNCHANGED <<swap_result, swap_failed_step>>
    /\ UNCHANGED <<accounts, delivered, min_output_amount, expected_output,
                   output_balance_before, output_balance_after, actual_output,
                   slippage_verified, slippage_bps, transfers, swap_events>>
    /\ UNCHANGED <<amount, protocol_fee, swap_amount>>
    /\ UNCHANGED not_swap_vars

\* STEP 6: protocol_fee, validate_amount_after_fee, _swap_amount.
swap_handler_CalculateFees ==
    /\ swap_pc = "fees"
    /\ LET fee        == calculate_protocol_fee(amount)
           sufficient == validate_amount_after_fee(amount, fee.val, MIN_SWAP_AMOUNT)
           after      == amount_after_fee(amount, fee.val)
       IN  /\ protocol_fee' = fee
           /\ IF ~fee.ok
              THEN /\ SwapReturn(fee, "fees")
                   /\ UNCHANGED swap_amount
              ELSE IF ~sufficient.ok
              THEN /\ SwapReturn(sufficient, "fees")
                   /\ UNCHANGED swap_amount
              ELSE /\ swap_amount' = after
                   /\ IF ~after.ok
                      THEN SwapReturn(after, "fees")
                      ELSE /\ swap_pc' = "swap"
                           /\ UNCHANGED <<swap_result, swap_failed_step>>
    /\ UNCHANGED <<accounts, delivered, min_output_amount, expected_output,
                   fee_recipient_provided, output_balance_before,
                   output_balance_after, actual_output, slippage_verified,
                   slippage_bps, transfers, swap_events>>
    /\ UNCHANGED amount
    /\ UNCHANGED not_swap_vars

\* STEP 7: the handler makes no call between its two reads of
\* ctx.accounts.output_token_account.amount.
swap_handler_ExecuteSwap ==
    /\ swap_pc = "swap"
    /\ output_balance_before' = accounts.output_token_account.amount
    /\ output_balance_after' = accounts.output_token_account.amount
    /\ LET difference == u64_checked_sub(output_balance_after', output_balance_before')
       IN  IF ~difference.some
           THEN /\ SwapReturn(Err("InsufficientOutput"), "swap")
                /\ UNCHANGED actual_output
           ELSE /\ actual_output' = difference.val
                /\ swap_pc' = "slippage"
                /\ UNCHANGED <<swap_result, swap_failed_step>>
    /\ UNCHANGED <<accounts, delivered, min_output_amount, expected_output,
                   fee_recipient_provided, slippage_verified, slippage_bps,
                   transfers, swap_events>>
    /\ UNCHANGED <<amount, protocol_fee, swap_amount>>
    /\ UNCHANGED not_swap_vars

\* The event of STEP 11 (the timestamp left out).
SwapExecutedEvent(bps) ==
    [authority     |-> accounts.authority.key,
     input_amount  |-> amount,
     output_amount |-> actual_output,
     input_mint    |-> accounts.input_mint,
     output_mint   |-> accounts.output_mint,
     protocol_fee  |-> protocol_fee.val,
     slippage_bps  |-> bps]

\* STEP 9 before STEP 8: the fee is transferred, then the slippage is
\* validated.
swap_handler_ValidateSlippage_transfer_first ==
    /\ swap_pc = "slippage"
    /\ slippage_verified' = TRUE
    /\ LET verified == validate_slippage(expected_output, actual_output,
                                         min_output_amount, MAX_SLIPPAGE_BPS)
           computed == calculate_slippage(expected_output, actual_output)
           bps      == IF computed.some THEN computed.val ELSE 0
           pays     == fee_recipient_provided /\ protocol_fee.val > 0
       IN  IF pays /\ accounts.input_token_account.amount < protocol_fee.val
           THEN /\ SwapReturn(Err("TransferFailed"), "transfer")
                /\ UNCHANGED <<slippage_bps, accounts, transfers, swap_events>>
           ELSE /\ IF pays
                   THEN /\ transfers' = Append(transfers, protocol_fee.val)
                        /\ accounts' =
                               [accounts EXCEPT
                                   !.input_token_account.amount = @ - protocol_fee.val,
                                   !.fee_recipient.amount = @ + protocol_fee.val]
                   ELSE UNCHANGED <<accounts, transfers>>
                /\ IF ~verified.ok
                   THEN /\ SwapReturn(verified, "slippage")
                        /\ UNCHANGED <<slippage_bps, swap_events>>
                   ELSE /\ slippage_bps' = bps
                        /\ swap_events' = Append(swap_events, SwapExecutedEvent(bps))
                        /\ SwapReturn(Ok(0), "none")
    /\ UNCHANGED <<delivered, min_output_amount, expected_output,
                   fee_recipient_provided, output_balance_before,
                   output_balance_after, actual_output>>
    /\ UNCHANGED <<amount, protocol_fee, swap_amount>>
    /\ UNCHANGED not_swap_vars

\* STEP 8: validate_slippage, then the slippage for the event.  STEP 9:
\* the fee transfer when a recipient was given and the fee is not zero.
\* STEP 10 to STEP 12: the event and Ok(()).
swap_handler_ValidateSlippage ==
    /\ swap_pc = "slippage"
    /\ slippage_verified' = TRUE
    /\ LET verified == validate_slippage(expected_output, actual_output,
                                         min_output_amount, MAX_SLIPPAGE_BPS)
           computed == calculate_slippage(expected_output, actual_output)
           bps      == IF computed.some THEN computed.val ELSE 0
           pays     == fee_recipient_provided /\ protocol_fee.val > 0
       IN  IF ~verified.ok
           THEN /\ SwapReturn(verified, "slippage")
                /\ UNCHANGED <<slippage_bps, accounts, transfers, swap_events>>
           ELSE IF pays /\ accounts.input_token_account.amount < protocol_fee.val
           THEN /\ SwapReturn(Err("TransferFailed"), "transfer")
                /\ slippage_bps' = bps
                /\ UNCHANGED <<accounts, transfers, swap_events>>
           ELSE /\ slippage_bps' = bps
                /\ IF pays
                   THEN /\ transfers' = Append(transfers, protocol_fee.val)
                        /\ accounts' =
                               [accounts EXCEPT
                                   !.input_token_account.amount = @ - protocol_fee.val,
                                   !.fee_recipient.amount = @ + protocol_fee.val]
                   ELSE UNCHANGED <<accounts, transfers>>
                /\ swap_events' = Append(swap_events, SwapExecutedEvent(bps))
                /\ SwapReturn(Ok(0), "none")
    /\ UNCHANGED <<delivered, min_output_amount, expected_output,
                   fee_recipient_provided, output_balance_before,
                   output_balance_after, actual_output>>
    /\ UNCHANGED <<amount, protocol_fee, swap_amount>>
    /\ UNCHANGED not_swap_vars

SwapAmounts == {0, 1, 334, 1000}

SwapMinOutputs == {0, 1, 90}

SwapExpectedOutputs == {0, 100}

\* What the swap instructions of the same transaction paid into the
\* output account before execute_swap ran, and what the account held
\* before that.
SwapDelivered == {0, 94, 95, 105}

SwapPriorBalances == {0, 50}

SwapFeeRecipients ==
    { NoFeeRecipient,
      FeeRecipient("token_program", TRUE, 1),
      FeeRecipient("token_program", FALSE, DefaultPubkey),
      FeeRecipient("token_program", TRUE, 3) }

\* No instruction has been received yet.
InitSwap == IdleExcept({})

\* lib.rs: the program receives an execute_swap instruction and enters
\* handler with its accounts and arguments.  Instructions run one at a
\* time: none is received while batch_swap runs.
execute_swap ==
    /\ swap_pc = "idle"
    /\ pc = "idle"
    /\ \E amt \in SwapAmounts,
          in_mint \in {1, 2}, in_owner \in {"authority", "other"},
          in_key \in {1, 2}, out_key \in {2, 3},
          recipient \in SwapFeeRecipients,
          paid \in SwapDelivered, prior \in SwapPriorBalances,
          min_out \in SwapMinOutputs, exp_out \in SwapExpectedOutputs :
           /\ amount' = amt
           /\ accounts' = Accounts(in_mint, in_owner, amt, 2, prior + paid,
                                   in_key, out_key, recipient)
           /\ delivered' = paid
           /\ min_output_amount' = min_out
           /\ expected_output' = exp_out
    /\ swap_pc' = "start"
    /\ UNCHANGED <<fee_recipient_provided, output_balance_before,
                   output_balance_after, actual_output, slippage_verified,
                   slippage_bps, transfers, swap_events, swap_result,
                   swap_failed_step>>
    /\ UNCHANGED <<protocol_fee, swap_amount>>
    /\ UNCHANGED not_swap_vars

NextSwap ==
    \/ execute_swap
    \/ swap_handler_ValidateParams
    \/ swap_handler_ValidateAccounts
    \/ swap_handler_CalculateFees
    \/ swap_handler_ExecuteSwap
    \/ swap_handler_ValidateSlippage

\* The handler is straight-line code: an invocation that can take its
\* next step takes it.
SpecSwap == InitSwap /\ [][NextSwap]_vars /\ WF_vars(NextSwap)

\* ------------------------------------------------------------------------
\* Either instruction of the program, invoked once
\* ------------------------------------------------------------------------

InitRouter == Init \/ InitSwap

NextRouter == Next \/ NextSwap

SpecRouter == InitRouter /\ [][NextRouter]_vars

\* ------------------------------------------------------------------------
\* Vocabulary of the properties
\* ------------------------------------------------------------------------

\* The five rules on one request, numbered as in the specification.
RuleHolds(k, r) ==
    CASE k = 1 -> r.input_mint # DefaultPubkey
      [] k = 2 -> r.output_mint # DefaultPubkey
      [] k = 3 -> r.input_mint # r.output_mint
      [] k = 4 -> r.amount >= 1
      [] k = 5 -> r.min_output_amount > 0

RuleKind(k) ==
    CASE k = 1 -> "InvalidAccount"
      [] k = 2 -> "InvalidAccount"
      [] k = 3 -> "InvalidSwapPair"
      [] k = 4 -> "InvalidAmount"
      [] k = 5 -> "InvalidMinOutput"

ViolatedRules(r) == { k \in 1..5 : ~RuleHolds(k, r) }

AllRulesHold(r) == ViolatedRules(r) = {}

\* The first violated rule when the rules are examined in the order `order`.
FirstViolated(order, r) ==
    LET pos == CHOOSE p \in 1..Len(order) :
                   /\ ~RuleHolds(order[p], r)
                   /\ \A q \in 1..(p - 1) : RuleHolds(order[q], r)
    IN  order[pos]

AllMembersValid(batch) == \A j \in 1..Len(batch) : AllRulesHold(batch[j])

\* floor(a * 30 / 10000), from the quotient and remainder of a by 10000.
FloorFee(a) == (a \div 10000) * 30 + ((a % 10000) * 30) \div 10000

\* The sum of a sequence of naturals, or U64_MAX + 1 when it exceeds U64_MAX.
RECURSIVE CappedSum(_)
CappedSum(s) ==
    IF s = <<>> THEN 0
    ELSE LET rest == CappedSum(Tail(s))
         IN  IF rest > U64_MAX \/ Head(s) > U64_MAX - rest
             THEN U64_MAX + 1
             ELSE rest + Head(s)

AmountsOf(batch) == [j \in 1..Len(batch) |-> batch[j].amount]

FeesOf(batch) == [j \in 1..Len(batch) |-> FloorFee(batch[j].amount)]

TotalOverflows(batch) == CappedSum(AmountsOf(batch)) > U64_MAX

SizeAccepted(batch) == Len(batch) >= 1 /\ Len(batch) <= 10

FailedValidation == pc = "done" /\ failed_step = "validate"

\* ------------------------------------------------------------------------
\* Properties
\* ------------------------------------------------------------------------

\* C1 (as stated): a request rejected by the validation loop of the batch
\* handler is rejected with the kind of its first violated rule in the order
\* source id, destination id, distinct ids, amount, minimum output.
C1_FirstFailureInSpecOrder ==
    FailedValidation =>
        result.err = RuleKind(FirstViolated(<<1, 2, 3, 4, 5>>, swaps[index]))

\* C1 (amended): a request rejected by the validation loop of the batch
\* handler is rejected with the kind of its first violated rule in the order
\* source id, destination id, amount, distinct ids, minimum output.
C1_FirstFailureInHandlerOrder ==
    FailedValidation =>
        /\ ~result.ok
        /\ result.err = RuleKind(FirstViolated(<<1, 2, 4, 3, 5>>, swaps[index]))

\* A request with equal non-zero ids and amount 0 was rejected as InvalidAmount.
C1_Witness ==
    /\ FailedValidation
    /\ swaps[index].input_mint = swaps[index].output_mint
    /\ swaps[index].input_mint # DefaultPubkey
    /\ swaps[index].amount = 0
    /\ result.err = "InvalidAmount"

\* C2: per-request validation succeeds exactly for the requests that satisfy
\* all five rules: every member the loop went past satisfies them, and the
\* member it stopped at violates one.
C2_ValidIffAllRules ==
    /\ pc = "validate" => \A j \in 1..(index - 1) : AllRulesHold(swaps[j])
    /\ pc \in {"accumulate", "emit"} => AllMembersValid(swaps)
    /\ pc = "done" /\ failed_step \notin {"size", "validate"} => AllMembersValid(swaps)
    /\ FailedValidation =>
           /\ ~AllRulesHold(swaps[index])
           /\ \A j \in 1..(index - 1) : AllRulesHold(swaps[j])

\* The loop accepted the first member and rejected the second.
C2_Witness ==
    /\ FailedValidation
    /\ index = 2
    /\ AllRulesHold(swaps[1])
    /\ ~AllRulesHold(swaps[2])

\* C3: a request that violates exactly one rule is rejected with the kind of
\* that rule, whatever the values of its other fields.
C3_SingleViolationKind ==
    /\ FailedValidation =>
           \A k \in 1..5 :
               ViolatedRules(swaps[index]) = {k} => result = Err(RuleKind(k))
    /\ pc \in {"accumulate", "emit"} =>
           \A j \in 1..Len(swaps) : Cardinality(ViolatedRules(swaps[j])) # 1

\* A request whose only fault is a pair of equal ids was rejected as
\* InvalidSwapPair.
C3_Witness ==
    /\ FailedValidation
    /\ ViolatedRules(swaps[index]) = {3}
    /\ result.err = "InvalidSwapPair"

\* C4: an empty batch returns EmptySwaps, a batch of more than 10 requests
\* returns TooManySwaps, and a batch of 1..10 valid requests whose total
\* does not overflow returns Ok.
C4_BatchCardinality ==
    pc = "done" =>
        /\ Len(swaps) = 0 => result = Err("EmptySwaps")
        /\ Len(swaps) > 10 => result = Err("TooManySwaps")
        /\ (SizeAccepted(swaps) /\ AllMembersValid(swaps) /\ ~TotalOverflows(swaps))
               => result = Ok(0)

\* A batch of exactly MAX_BATCH_SIZE valid requests returned Ok.
C4_Witness ==
    /\ pc = "done"
    /\ Len(swaps) = 10
    /\ result.ok

\* C5: a batch with an invalid member at any position, or whose totals
\* overflow, returns an error and emits no event; an event exists only when
\* the invocation returned Ok, every member is valid and nothing overflowed.
C5_AllOrNothing ==
    /\ ((\E j \in 1..Len(swaps) : ~AllRulesHold(swaps[j])) \/ TotalOverflows(swaps))
           => /\ events = <<>>
              /\ pc = "done" => ~result.ok
    /\ pc = "done" /\ ~result.ok => events = <<>>
    /\ events # <<>> =>
           /\ pc = "done" /\ result.ok
           /\ AllMembersValid(swaps)
           /\ ~TotalOverflows(swaps)
           /\ Len(events) = 1

\* A batch whose only invalid member is its last, tenth, member was rejected
\* without an event.
C5_Witness ==
    /\ FailedValidation
    /\ index = 10
    /\ Len(swaps) = 10
    /\ events = <<>>

\* C6: the event of a successful batch carries the sum of the amounts, the
\* sum of the per-member floored fees, and the number of members, which is
\* in 1..10.
C6_EventTotals ==
    \A e \in 1..Len(events) :
        /\ events[e].total_input_amount = CappedSum(AmountsOf(swaps))
        /\ events[e].total_protocol_fees = CappedSum(FeesOf(swaps))
        /\ events[e].swap_count = Len(swaps)
        /\ events[e].swap_count >= 1 /\ events[e].swap_count <= 10

\* A successful batch whose fee total differs from the fee of its amount
\* total.
C6_Witness ==
    /\ pc = "done" /\ result.ok
    /\ Len(events) = 1
    /\ events[1].total_protocol_fees > 0
    /\ events[1].total_protocol_fees # FloorFee(events[1].total_input_amount)

\* C7: when the running sum of the amounts, or of the fees, exceeds U64_MAX
\* the batch returns MathOverflow without an event, and the running totals
\* and every emitted total are the exact sums, never a wrapped value.
C7_OverflowAborts ==
    /\ (/\ pc = "done" /\ SizeAccepted(swaps) /\ AllMembersValid(swaps)
        /\ (TotalOverflows(swaps) \/ CappedSum(FeesOf(swaps)) > U64_MAX))
           => result = Err("MathOverflow") /\ events = <<>>
    /\ (pc = "done" /\ failed_step \in {"fee", "total_input_amount", "total_protocol_fees"})
           => result = Err("MathOverflow") /\ events = <<>>
    /\ pc = "accumulate" =>
           /\ total_input_amount = CappedSum(SubSeq(AmountsOf(swaps), 1, index - 1))
           /\ total_protocol_fees = CappedSum(SubSeq(FeesOf(swaps), 1, index - 1))
           /\ total_input_amount <= U64_MAX
    /\ pc = "emit" =>
           /\ total_input_amount = CappedSum(AmountsOf(swaps))
           /\ total_input_amount <= U64_MAX
    /\ \A e \in 1..Len(events) :
           /\ events[e].total_input_amount <= U64_MAX
           /\ events[e].total_input_amount = CappedSum(AmountsOf(swaps))
           /\ events[e].total_protocol_fees <= U64_MAX

\* The addition of a later member's amount overflowed and the batch returned
\* MathOverflow.
C7_Witness ==
    /\ pc = "done"
    /\ failed_step = "total_input_amount"
    /\ index >= 2
    /\ result = Err("MathOverflow")
    /\ events = <<>>

\* C8: for valid requests r1, r2 whose amounts together do not overflow, the
\* totals emitted for [r1, r2] are the sums of the totals emitted for [r1]
\* and for [r2], and equal the totals emitted for [r2, r1].
C8_TotalsAdditive ==
    (Len(returned) = 4 /\ ~TotalOverflows(returned[1].swaps)) =>
        /\ \A n \in 1..4 : returned[n].result.ok /\ Len(returned[n].emitted) = 1
        /\ LET both  == returned[1].emitted[1]
               first == returned[2].emitted[1]
               secnd == returned[3].emitted[1]
               rev   == returned[4].emitted[1]
           IN  /\ returned[2].swaps = <<returned[1].swaps[1]>>
               /\ returned[3].swaps = <<returned[1].swaps[2]>>
               /\ returned[4].swaps = <<returned[1].swaps[2], returned[1].swaps[1]>>
               /\ both.total_input_amount
                      = first.total_input_amount + secnd.total_input_amount
               /\ both.total_protocol_fees
                      = first.total_protocol_fees + secnd.total_protocol_fees
               /\ rev.total_input_amount = both.total_input_amount
               /\ rev.total_protocol_fees = both.total_protocol_fees

\* Two different requests with non-zero fees were totalled in all four ways.
C8_Witness ==
    /\ Len(returned) = 4
    /\ returned[1].swaps[1] # returned[1].swaps[2]
    /\ \A n \in 1..4 : returned[n].result.ok
    /\ returned[2].emitted[1].total_protocol_fees > 0
    /\ returned[3].emitted[1].total_protocol_fees > 0

\* C9: calculate_protocol_fee returns Ok(floor(amount * 30 / 10000)) for
\* every amount, also where amount * 30 exceeds U64_MAX; for 1_000_000_000
\* the fee is 3_000_000 and the amount after fee 997_000_000.
C9_FeeIsFloor ==
    /\ fee_pc \in {"after", "done"} =>
           /\ protocol_fee = Ok(FloorFee(amount))
           /\ amount = 1000000000 => protocol_fee = Ok(3000000)
    /\ (fee_pc = "done" /\ amount = 1000000000) => swap_amount = Ok(997000000)

\* The fee of 1_000_000_000, whose product with 30 exceeds U64_MAX, was
\* computed.
C9_Witness ==
    /\ fee_pc = "done"
    /\ amount = 1000000000
    /\ amount > U64_MAX \div 30
    /\ protocol_fee.ok
    /\ swap_amount.ok

\* C10: for every amount the fee is at most the amount, amount_after_fee of
\* the amount and its fee succeeds, and the amount after fee plus the fee is
\* the amount.
C10_FeeSplitLossless ==
    /\ fee_pc = "after" => protocol_fee.ok /\ protocol_fee.val <= amount
    /\ fee_pc = "done" =>
           /\ protocol_fee.ok
           /\ protocol_fee.val <= amount
           /\ swap_amount.ok
           /\ swap_amount.val <= U64_MAX - protocol_fee.val
           /\ swap_amount.val + protocol_fee.val = amount

\* An amount with a non-zero fee was split.
C10_Witness ==
    /\ fee_pc = "done"
    /\ protocol_fee.ok /\ protocol_fee.val > 0
    /\ swap_amount.ok /\ swap_amount.val > 0

\* ------------------------------------------------------------------------
\* Slippage
\* ------------------------------------------------------------------------

\* s = floor(n * 10000 / e) for e > 0, stated through the product:
\* s * e <= n * 10000 < s * e + e.
IsFloorOfScaled(s, n, e) ==
    LET scaled == WidenMul(n, 10000)
        low    == WidenMul(s, e)
    IN  /\ ~U128Less(scaled, low)
        /\ U128Less(scaled, U128AddCarry(low, as_u128(e)).sum)

\* floor((e - a) * 10000 / e) <= m for a < e.
FloorSlippageAtMost(e, a, m) ==
    U128Less(WidenMul(e - a, 10000), U128AddCarry(WidenMul(m, e), as_u128(e)).sum)

\* Differences whose product with 10000 stays below 2^31.
DirectlyComputable(n) == n <= 200000

C13_SlippageMonotonic ==
    (slip_pc \in {"client", "done"} /\ expected > 0 /\ actual <= actual_other) =>
        /\ slippage.some
        /\ slippage_other.some
        /\ slippage.val >= slippage_other.val

C13_Witness ==
    /\ slip_pc = "done"
    /\ expected = 1000000
    /\ actual = 0
    /\ actual_other = 900000
    /\ slippage = Some(10000)
    /\ slippage_other = Some(1000)

\* C14: validate_slippage succeeds exactly when actual >= min_output and
\* (expected = 0, or actual >= expected, or the floor slippage is at most
\* max_bps); every failure is SlippageExceeded; the floor on the output is
\* enforced whether or not the relative check applies.
C14_ValidateSlippage ==
    slip_pc = "verified" =>
        /\ verdict.ok <=>
               /\ actual >= min_output
               /\ \/ expected = 0
                  \/ actual >= expected
                  \/ FloorSlippageAtMost(expected, actual, max_slippage_bps)
        /\ ~verdict.ok => verdict = Err("SlippageExceeded")
        /\ actual < min_output => ~verdict.ok

\* The relative check is skipped (better than expected) and the floor
\* alone rejects.
C14_Witness ==
    /\ slip_pc = "verified"
    /\ expected = 100
    /\ actual = 105
    /\ min_output = U64_MAX
    /\ verdict = Err("SlippageExceeded")

\* C15: verify(100, 95, 90, 500) reports slippage 500 and is accepted;
\* verify(100, 94, 90, 500) is rejected with SlippageExceeded although the
\* output meets the floor of 90.
C15_BoundaryScenarios ==
    (slip_pc = "verified" /\ expected = 100 /\ min_output = 90 /\ max_slippage_bps = 500) =>
        /\ actual = 95 => (slippage = Some(500) /\ verdict = Ok(0))
        /\ actual = 94 =>
               /\ verdict = Err("SlippageExceeded")
               /\ validate_min_output(actual, min_output).ok

C15_Witness ==
    /\ slip_pc = "verified"
    /\ expected = 100
    /\ actual = 95
    /\ min_output = 90
    /\ max_slippage_bps = 500
    /\ slippage = Some(500)
    /\ verdict.ok

\* ------------------------------------------------------------------------
\* execute_swap
\* ------------------------------------------------------------------------

\* The batch handler has left its validation loop without an error.
BatchValidated ==
    \/ pc \in {"accumulate", "emit"}
    \/ pc = "done" /\ failed_step \notin {"size", "validate"}

\* execute_swap has passed STEP 6.
SwapFeesValidated ==
    \/ swap_pc \in {"swap", "slippage"}
    \/ swap_pc = "done" /\ swap_failed_step \in {"swap", "slippage", "transfer", "none"}

\* C11: once the single-swap path has validated the fee, the amount after
\* fee is amount - fee and at least MIN_SWAP_AMOUNT; every member of a
\* batch that passed validation has amount - protocol_fee(amount) >= 1.
C11_AmountAfterFee ==
    /\ SwapFeesValidated =>
           /\ protocol_fee.ok
           /\ protocol_fee.val = FloorFee(amount)
           /\ swap_amount.ok
           /\ swap_amount.val = amount - protocol_fee.val
           /\ swap_amount.val >= MIN_SWAP_AMOUNT
    /\ BatchValidated =>
           \A j \in 1..Len(swaps) :
               LET fee == calculate_protocol_fee(swaps[j].amount)
               IN  fee.ok /\ swaps[j].amount - fee.val >= 1
    /\ pc = "emit" => total_input_amount - total_protocol_fees >= Len(swaps)

\* The smallest amount with a fee of 1.
C11_Witness ==
    /\ swap_pc = "done"
    /\ SwapFeesValidated
    /\ amount = 334
    /\ protocol_fee = Ok(1)
    /\ swap_amount = Ok(333)

\* The parameters and accounts pass every check of STEP 1 to STEP 5.
SwapRequestValid ==
    /\ amount >= 1
    /\ min_output_amount > 0
    /\ accounts.input_token_account.mint # accounts.output_token_account.mint
    /\ accounts.input_token_account.mint = accounts.input_mint
    /\ accounts.output_token_account.mint = accounts.output_mint
    /\ accounts.input_token_account.owner = accounts.authority.key
    /\ \/ accounts.fee_recipient.owner # "token_program"
       \/ /\ accounts.fee_recipient.is_token_account
          /\ accounts.fee_recipient.mint = accounts.input_token_account.mint

\* What the swap paid out meets the floor and the tolerance.
DeliveredAcceptable ==
    /\ delivered >= min_output_amount
    /\ \/ expected_output = 0
       \/ delivered >= expected_output
       \/ (expected_output - delivered) * 10000 <= MAX_SLIPPAGE_BPS * expected_output

\* C16: an invocation with valid parameters whose swap delivered an output
\* of at least min_output_amount within MAX_SLIPPAGE_BPS returns success
\* and emits one SwapExecutedEvent whose output_amount is what was
\* delivered.
C16_SuccessReachable ==
    (swap_pc = "done" /\ SwapRequestValid /\ DeliveredAcceptable) =>
        /\ swap_result = Ok(0)
        /\ Len(swap_events) = 1
        /\ swap_events[1].output_amount = delivered

SwapRejected ==
    swap_pc = "done" /\ ~swap_result.ok /\ swap_failed_step \in {"params", "accounts", "fees"}

SwapVerifiedRejected ==
    swap_pc = "done" /\ swap_result = Err("SlippageExceeded") /\ swap_failed_step = "slippage"

SwapVerifiedAccepted ==
    swap_pc = "done" /\ swap_result = Ok(0) /\ swap_failed_step = "none"

\* Position of a label in the handler's text.
StepRank(label) ==
    CASE label = "idle" -> 0 - 1
      [] label = "start" -> 0
      [] label = "accounts" -> 1
      [] label = "fees" -> 2
      [] label = "swap" -> 3
      [] label = "slippage" -> 4
      [] label = "done" -> 5

\* C17: every execute_swap invocation ends, in exactly one of Rejected,
\* Verified-Rejected and Verified-Accepted; an invalid request ends
\* Rejected, and a Rejected request has seen no slippage verification, no
\* fee transfer and no event; every step moves forward in the handler and
\* no step leaves a terminal state.
C17_Lifecycle ==
    /\ [](swap_pc = "done" =>
             /\ SwapRejected \/ SwapVerifiedRejected \/ SwapVerifiedAccepted
             /\ ~(SwapRejected /\ SwapVerifiedRejected)
             /\ ~(SwapRejected /\ SwapVerifiedAccepted)
             /\ ~(SwapVerifiedRejected /\ SwapVerifiedAccepted))
    /\ []((swap_pc = "done" /\ ~SwapRequestValid) => SwapRejected)
    /\ [](SwapRejected =>
             /\ ~slippage_verified
             /\ transfers = <<>>
             /\ swap_events = <<>>)
    /\ [][swap_pc # "done" /\ StepRank(swap_pc') > StepRank(swap_pc)]_vars
    /\ <>(swap_pc = "done")

\* Rejected at STEP 5.
C17_Witness ==
    /\ SwapRejected
    /\ swap_result = Err("InvalidFeeRecipient")
    /\ ~slippage_verified
    /\ swap_events = <<>>

\* ------------------------------------------------------------------------
\* SafeMath
\* ------------------------------------------------------------------------

U128Max == [hi |-> U64_MAX, lo |-> U64_MAX]

\* Operands whose product stays below 2^31.
SmallFactors(x, y) == x <= 46340 /\ y <= 46340

\* The four results for u64 operands x, y, each stated through the inverse
\* operation or the exact double-width value.
U64ResultsExact(x, y, res) ==
    /\ res.add.ok <=> x - (U64_MAX - y) <= 0
    /\ res.add.ok => (res.add.val <= U64_MAX /\ res.add.val - y = x)
    /\ res.sub.ok <=> y <= x
    /\ res.sub.ok => (res.sub.val >= 0 /\ res.sub.val + y = x)
    /\ res.mul.ok <=> WidenMul(x, y).hi = 0
    /\ res.mul.ok =>
           /\ res.mul.val = WidenMul(x, y).lo
           /\ x # 0 => (res.mul.val \div x = y /\ res.mul.val % x = 0)
           /\ x = 0 => res.mul.val = 0
    /\ SmallFactors(x, y) =>
           res.mul = IF x * y <= U64_MAX THEN Ok(x * y) ELSE Err("MathOverflow")
    /\ res.div.ok <=> y # 0
    /\ res.div.ok =>
           /\ res.div.val * y <= x
           /\ x - res.div.val * y < y

\* The same for u128 operands.
U128ResultsExact(x, y, res) ==
    /\ res.add.ok <=> ~U128Less(U128Sub(U128Max, y), x)
    /\ res.add.ok => (~U128Less(res.add.val, y) /\ U128Sub(res.add.val, y) = x)
    /\ res.sub.ok <=> ~U128Less(x, y)
    /\ res.sub.ok => U128AddCarry(res.sub.val, y) = [carry |-> 0, sum |-> x]
    /\ res.mul.ok <=>
           \/ y = as_u128(0)
           \/ ~U128Less(U128DivMod(U128Max, y).q, x)
    /\ res.mul.ok =>
           /\ y = as_u128(0) => res.mul.val = as_u128(0)
           /\ y # as_u128(0) =>
                  U128DivMod(res.mul.val, y) = [q |-> x, r |-> as_u128(0)]
    /\ res.div.ok <=> y # as_u128(0)
    /\ res.div.ok =>
           LET back == u128_safe_mul(res.div.val, y)
           IN  /\ back.ok
               /\ ~U128Less(x, back.val)
               /\ U128Less(U128Sub(x, back.val), y)

\* C18: safe_add and safe_mul return the exact result when it fits the
\* type and fail otherwise; safe_sub fails exactly when rhs > self and is
\* self - rhs otherwise; safe_div fails exactly when rhs = 0 and is the
\* floor quotient otherwise; every failure is MathOverflow.
C18_SafeMathExact ==
    math_pc = "done" =>
        /\ \A op \in {"add", "sub", "mul", "div"} :
               ~math_results[op].ok => math_results[op] = Err("MathOverflow")
        /\ math_width = "u64" => U64ResultsExact(math_self, math_rhs, math_results)
        /\ math_width = "u128" => U128ResultsExact(math_self, math_rhs, math_results)

\* The largest u64 and 1: the sum fails, the difference, product and
\* quotient are exact.
C18_Witness ==
    /\ math_pc = "done"
    /\ math_width = "u64"
    /\ math_self = U64_MAX
    /\ math_rhs = 1
    /\ math_results.add = Err("MathOverflow")
    /\ math_results.sub = Ok(U64_MAX - 1)
    /\ math_results.mul = Ok(U64_MAX)
    /\ math_results.div = Ok(U64_MAX)

\* ------------------------------------------------------------------------
\* Concurrent invocations
\* ------------------------------------------------------------------------

\* What the caller of an invocation observes.
Outcome(res, evs) == [result |-> res, events |-> evs]

AloneOutcome(batch) ==
    LET f == RunAlone(Frame(batch, "start")) IN Outcome(f.result, f.events)

\* C19: under every interleaving of the steps of two invocations of
\* batch_swap, each returns the error kind, or the event with the totals and
\* swap_count, that it returns when it runs alone on its batch.
C19_InterleavingIndependent ==
    /\ pc = "done" => Outcome(result, events) = AloneOutcome(swaps)
    /\ other.pc = "done" => Outcome(other.result, other.events) = AloneOutcome(other.swaps)

\* Both invocations returned success on different batches with different
\* totals, the second having stepped while the first was running.
C19_Witness ==
    /\ pc = "done"
    /\ other.pc = "done"
    /\ other.overlapped
    /\ result.ok
    /\ other.result.ok
    /\ Len(swaps) = 2
    /\ Len(other.swaps) = 1
    /\ events[1].total_input_amount = 2000
    /\ other.events[1].total_input_amount = 1000

\* ------------------------------------------------------------------------
\* Program id
\* ------------------------------------------------------------------------

\* C20: the id get_batch_swap_router_program_id returns is the id the
\* program declares with declare_id!, and its text is the one
\* test_program_id expects.
C20_ProgramIdsAgree ==
    id_pc = "done" =>
        /\ program_id.ok
        /\ program_id = declared_id
        /\ program_id_string = TestIdText
        /\ test_result = "passed"

\* ------------------------------------------------------------------------
\* Order of the steps of the batch handler
\* ------------------------------------------------------------------------

\* Position of the first member of batch that violates a rule.
FirstInvalid(batch) ==
    CHOOSE j \in 1..Len(batch) :
        /\ ~AllRulesHold(batch[j])
        /\ \A k \in 1..(j - 1) : AllRulesHold(batch[k])

\* C24: the size checks come before every per-member check: an empty batch
\* returns EmptySwaps and a batch of more than MAX_BATCH_SIZE members
\* returns TooManySwaps whatever its members are, and no member has been
\* looked at while the size checks have not passed.
C24_SizeChecksFirst ==
    /\ pc = "start" => index = 0 /\ result = NotReturned
    /\ index >= 1 => SizeAccepted(swaps)
    /\ (pc = "done" /\ Len(swaps) = 0)
           => result = Err("EmptySwaps") /\ failed_step = "size" /\ index = 0
    /\ (pc = "done" /\ Len(swaps) > MAX_BATCH_SIZE)
           => result = Err("TooManySwaps") /\ failed_step = "size" /\ index = 0
    /\ (pc = "done" /\ failed_step = "size") => ~SizeAccepted(swaps)

\* A batch of eleven members whose last member is invalid was rejected as
\* TooManySwaps with no member looked at.
C24_Witness ==
    /\ pc = "done"
    /\ Len(swaps) = MAX_BATCH_SIZE + 1
    /\ ~AllRulesHold(swaps[Len(swaps)])
    /\ result = Err("TooManySwaps")
    /\ index = 0

\* C25: every member is validated before anything is accumulated: nothing
\* is added while the validation loop runs; a batch of accepted size with an
\* invalid member returns the validation error of its first invalid member,
\* never MathOverflow, even when the amounts before that member overflow the
\* total; MathOverflow is returned only when every member is valid.
C25_ValidateBeforeAccumulate ==
    /\ pc \in {"start", "validate"} =>
           total_input_amount = 0 /\ total_protocol_fees = 0
    /\ pc \in {"accumulate", "emit"} => AllMembersValid(swaps)
    /\ (pc = "done" /\ SizeAccepted(swaps) /\ ~AllMembersValid(swaps)) =>
           /\ failed_step = "validate"
           /\ index = FirstInvalid(swaps)
           /\ result = Err(RuleKind(FirstViolated(<<1, 2, 4, 3, 5>>, swaps[index])))
           /\ result # Err("MathOverflow")
           /\ total_input_amount = 0 /\ total_protocol_fees = 0
    /\ (pc = "done" /\ result = Err("MathOverflow")) =>
           SizeAccepted(swaps) /\ AllMembersValid(swaps)

\* Two members whose amounts overflow the total, then an invalid member:
\* the batch was rejected for the invalid member.
C25_Witness ==
    /\ pc = "done"
    /\ Len(swaps) = 3
    /\ TotalOverflows(SubSeq(swaps, 1, 2))
    /\ AllRulesHold(swaps[1]) /\ AllRulesHold(swaps[2])
    /\ ~AllRulesHold(swaps[3])
    /\ failed_step = "validate"
    /\ result = Err("InvalidSwapPair")

\* C26: the fee total never exceeds the amount total, so the addition that
\* overflows is always the one of the amounts: MathOverflow comes from the
\* total_input_amount addition only, and every emitted event has
\* total_protocol_fees <= total_input_amount.
C26_FeesBelowInput ==
    /\ total_protocol_fees <= total_input_amount
    /\ (pc = "done" /\ result = Err("MathOverflow")) => failed_step = "total_input_amount"
    /\ failed_step \notin {"fee", "total_protocol_fees"}
    /\ \A e \in 1..Len(events) :
           events[e].total_protocol_fees <= events[e].total_input_amount

\* The amount addition overflowed after a member whose fee is not zero.
C26_Witness ==
    /\ pc = "done"
    /\ result = Err("MathOverflow")
    /\ failed_step = "total_input_amount"
    /\ total_protocol_fees > 0
    /\ total_protocol_fees < total_input_amount

\* ------------------------------------------------------------------------
\* execute_swap: transfer and event
\* ------------------------------------------------------------------------

\* STEP 8 accepts the values the handler holds.
SlippageAccepted ==
    validate_slippage(expected_output, actual_output, min_output_amount, MAX_SLIPPAGE_BPS).ok

\* STEP 9 has a transfer to make.
FeeDue == fee_recipient_provided /\ protocol_fee.ok /\ protocol_fee.val > 0

\* C27: the fee is transferred only after slippage validation passed, and
\* only to a provided recipient and for a fee above zero; an invocation that
\* returned SlippageExceeded or an earlier error has transferred nothing and
\* emitted nothing; an event exists only after the transfer step succeeded
\* or was skipped.
C27_TransferAfterSlippage ==
    /\ swap_pc # "done" => transfers = <<>> /\ swap_events = <<>>
    /\ transfers # <<>> =>
           /\ slippage_verified /\ SlippageAccepted
           /\ FeeDue
           /\ transfers = <<protocol_fee.val>>
    /\ (swap_pc = "done" /\ swap_failed_step \in {"params", "accounts", "fees", "swap", "slippage"})
           => transfers = <<>> /\ swap_events = <<>>
    /\ (swap_pc = "done" /\ swap_result = Err("SlippageExceeded"))
           => transfers = <<>> /\ swap_events = <<>>
    /\ swap_events # <<>> =>
           /\ swap_pc = "done" /\ swap_result = Ok(0)
           /\ slippage_verified /\ SlippageAccepted
           /\ transfers = IF FeeDue THEN <<protocol_fee.val>> ELSE <<>>

\* SlippageExceeded with a fee due to a provided recipient: nothing was
\* transferred and nothing emitted.
C27_Witness ==
    /\ swap_pc = "done"
    /\ swap_result = Err("SlippageExceeded")
    /\ slippage_verified
    /\ FeeDue
    /\ accounts.input_token_account.amount >= protocol_fee.val
    /\ transfers = <<>>
    /\ swap_events = <<>>

\* C28: every SwapExecutedEvent has output_amount >= min_output_amount > 0,
\* slippage_bps <= MAX_SLIPPAGE_BPS, slippage_bps equal to the computed
\* slippage (0 when expected_output is 0) and protocol_fee equal to
\* floor(input_amount * 30 / 10000).
C28_EventFields ==
    \A e \in 1..Len(swap_events) :
        /\ swap_events[e].output_amount >= min_output_amount
        /\ min_output_amount > 0
        /\ swap_events[e].slippage_bps <= MAX_SLIPPAGE_BPS
        /\ swap_events[e].slippage_bps =
               IF expected_output = 0 THEN 0
               ELSE calculate_slippage(expected_output, swap_events[e].output_amount).val
        /\ swap_events[e].protocol_fee = FloorFee(swap_events[e].input_amount)

\* An invocation emitted an event.
C28_EventEmitted == swap_events # <<>>

\* ------------------------------------------------------------------------
\* Amount after fee
\* ------------------------------------------------------------------------

\* C30: amount_after_fee(amount, fee) is amount - fee when fee <= amount
\* and MathOverflow exactly when fee > amount; validate_amount_after_fee
\* returns MathOverflow when fee > amount, InsufficientOutput when
\* fee <= amount and amount - fee < min_amount, and Ok otherwise.
C30_AmountAfterFeeOutcomes ==
    after_pc = "done" =>
        LET a == after_args.amount
            f == after_args.fee
            m == after_args.min_amount
        IN  /\ after_amount.ok <=> f <= a
            /\ after_amount.ok => after_amount = Ok(a - f)
            /\ ~after_amount.ok => after_amount = Err("MathOverflow")
            /\ after_valid = IF f > a THEN Err("MathOverflow")
                             ELSE IF a - f < m THEN Err("InsufficientOutput")
                             ELSE Ok(0)

\* The amount after fee equals the minimum and is accepted.
C30_Witness ==
    /\ after_pc = "done"
    /\ after_args = [amount |-> 2, fee |-> 1, min_amount |-> 1]
    /\ after_amount = Ok(1)
    /\ after_valid = Ok(0)

\* ------------------------------------------------------------------------
\* is_slippage_acceptable
\* ------------------------------------------------------------------------

C23_DecisionsAgree ==
    (/\ slip_pc = "decided"
     /\ expected > 0 /\ actual < expected /\ max_slippage_bps < 10000) =>
        /\ slippage.some
        /\ verdict.ok <=> slippage.val <= max_slippage_bps
        /\ acceptable.val <=> slippage.val <= max_slippage_bps

\* ------------------------------------------------------------------------
\* Client
\* ------------------------------------------------------------------------

InvalidAccount(msg) == Err(ContractError("InvalidAccount", msg))

\* C21: the client's execute_swap returns InvalidAccount for amount = 0,
\* otherwise for min_output_amount = 0, otherwise for equal mints, each with
\* its message, the first failing check deciding; nothing has been
\* submitted when it does.
C21_ClientChecksInOrder ==
    /\ client_submitted = <<>>
    /\ (client_op = "execute_swap" /\ client_pc = "done") =>
           LET a == client_args IN
           /\ a.amount = 0 =>
                  client_result = InvalidAccount("Amount must be greater than zero")
           /\ (a.amount # 0 /\ a.min_output_amount = 0) =>
                  client_result =
                      InvalidAccount("Minimum output amount must be greater than zero")
           /\ (a.amount # 0 /\ a.min_output_amount # 0 /\ a.input_mint = a.output_mint) =>
                  client_result = InvalidAccount("Input and output mints must differ")
           /\ (a.amount # 0 /\ a.min_output_amount # 0 /\ a.input_mint # a.output_mint) =>
                  client_result.err.kind = "TransactionFailed"
           /\ ~client_result.ok

\* Amount 0 with equal mints and no minimum output: the amount decides.
C21_Witness ==
    /\ client_op = "execute_swap"
    /\ client_pc = "done"
    /\ client_args.amount = 0
    /\ client_args.min_output_amount = 0
    /\ client_args.input_mint = client_args.output_mint
    /\ client_result = InvalidAccount("Amount must be greater than zero")
    /\ client_submitted = <<>>

\* The client's batch_swap went past its validation loop.
ClientValidationPassed ==
    /\ client_op = "batch_swap"
    /\ client_pc \in {"build", "done"}
    /\ client_pc = "done" => client_result.err.kind # "InvalidAccount"

\* C29: a batch whose members all pass the client's check before
\* submission is not rejected by the program's handler for its size or for
\* a member.
C29_ClientAtLeastAsStrict ==
    (ClientValidationPassed /\ pc = "done") => failed_step \notin {"size", "validate"}

====
